---- MODULE Spec2Model ----
(***************************************************************************)
(* A model of the mimc-abc anonymous credential library.                   *)
(*                                                                         *)
(* The bilinear group is modelled algebraically.  G1, G2 and GT are cyclic *)
(* groups of the same prime order Q; an element is represented by its      *)
(* discrete logarithm with respect to a fixed generator of its group, so   *)
(* group addition is addition mod Q, scalar multiplication is              *)
(* multiplication mod Q, and the pairing e(a*P, b*P~) = (a*b)*e(P, P~) is   *)
(* multiplication mod Q.  The identity of GT ("one") is 0.                  *)
(***************************************************************************)
EXTENDS Integers, Sequences, FiniteSets, TLC

\* Order of the scalar field E::ScalarField and of G1, G2, GT (a small prime).
Q == 5

\* The user's scalars (attributes, r, delta_r, delta_u) are drawn from
\* 0 .. MaxScalar.
MaxScalar == 1

\* Shows of one stored signature that the model follows.
MaxShows == 2

\* Credentials of one batch (credential_count)
MaxBatch == 2

\* Credentials of one identity binding proof or linked presentation
MaxLinked == 2

\* Largest attribute count given to PublicParams::new on its own
MaxAttrs == 2

F == 0 .. (Q - 1)
G1 == F
G2 == F
Scalars == {k % Q : k \in 0 .. MaxScalar}

\* Attribute counts n that MimcAbc::setup is called with
AttrCounts == {2}

\* Attribute counts n of the issuers of a multi-issuer system
IssuerAttrCounts == {1, 2}

\* Outcomes of the issuer's rng: x and y_i of the keys, u of a signature
KeyScalars == {1, 2}

\* Outcomes of the prover's rng: the first Schnorr blinding (the i-th blinding
\* of a vector is the first plus i - 1) and the challenge
Blindings == {0, 3}
Challenges == {1, 2}

\* ---------------------------------------------------------------- groups

FAdd(a, b) == (a + b) % Q
FMul(a, b) == (a * b) % Q
FNeg(a) == (Q - a) % Q

\* E::pairing(a, b), as an exponent of the GT generator
Pairing(a, b) == (a * b) % Q

GTOne == 0

Min(a, b) == IF a < b THEN a ELSE b

RECURSIVE MsmUpTo(_, _, _)
MsmUpTo(points, scalars, k) ==
    IF k = 0 THEN 0
    ELSE FAdd(MsmUpTo(points, scalars, k - 1), FMul(points[k], scalars[k]))

\* VariableBaseMSM::msm_unchecked: pairs up to the shorter of the two slices
Msm(points, scalars) == MsmUpTo(points, scalars, Min(Len(points), Len(scalars)))

\* Sequences of length n over S
SeqN(S, n) == [1 .. n -> S]

\* The blinding vectors of length k that the prover's rng produces
BlindingVectors(k) == {[i \in 1 .. k |-> (b + i - 1) % Q] : b \in Blindings}

\* The (blindings, challenge) pairs that the rng produces for the proof of a show
ShowCoins(k) ==
    {[blindings |-> [i \in 1 .. k |-> (b + i - 1) % Q], challenge |-> 1 + (b % 2)] :
        b \in Blindings}

\* Option<T>: <<>> is None, <<v>> is Some(v)
None == <<>>
Some(v) == <<v>>
IsSome(o) == Len(o) = 1
Unwrap(o) == o[1]

BoolStr(b) == IF b THEN "true" ELSE "false"

\* ------------------------------------------------------- public parameters

\* PublicParams::new, with the values its rng calls return as arguments
PublicParamsNew(n, g, g_tilde, y_values) ==
    [n |-> n,
     g |-> g,
     g_tilde |-> g_tilde,
     ck |-> [i \in 1 .. n |-> FMul(g, y_values[i])],
     ck_tilde |-> [i \in 1 .. n |-> FMul(g_tilde, y_values[i])],
     y_values |-> y_values]

\* A get_g1_bases that puts g in the first slot
BasesGFirst(pp) == <<pp.g>> \o pp.ck

\* PublicParams::get_g1_bases: ck_1, ..., ck_n, g
GetG1Bases(pp) == Append(pp.ck, pp.g)

\* MimcAbc::new
MimcAbcNew(pp) == [pp |-> pp, ck |-> [ck |-> pp.ck, ck_tilde |-> pp.ck_tilde]]

\* ------------------------------------------------------------- commitments

\* CommitmentKey::commit
\* A commit whose G2 part leaves out r * g~
CommitTildeWithoutR(ck, pp, messages, r) ==
    [cm |-> FAdd(Msm(ck.ck, messages), FMul(pp.g, r)),
     cm_tilde |-> Msm(ck.ck_tilde, messages)]

Commit(ck, pp, messages, r) ==
    [cm |-> FAdd(Msm(ck.ck, messages), FMul(pp.g, r)),
     cm_tilde |-> FAdd(Msm(ck.ck_tilde, messages), FMul(pp.g_tilde, r))]

\* randomize that leaves the G2 part as it was
RandomizeG1Only(commitment, pp, delta_r) ==
    [cm |-> FAdd(commitment.cm, FMul(pp.g, delta_r)),
     cm_tilde |-> commitment.cm_tilde]

\* Commitment::randomize
CommitmentRandomize(commitment, pp, delta_r) ==
    [cm |-> FAdd(commitment.cm, FMul(pp.g, delta_r)),
     cm_tilde |-> FAdd(commitment.cm_tilde, FMul(pp.g_tilde, delta_r))]

\* ----------------------------------------------------------------- Schnorr

\* SchnorrProtocol::commit_with_prepared_blindings (SchnorrProtocol::commit
\* is the same with blindings sampled by the rng)
SchnorrCommit(bases, blindings) ==
    [blindings |-> blindings, commited_blindings |-> Msm(bases, blindings)]

\* SchnorrProtocol::prove: s_i = rho_i + c * x_i
SchnorrProve(schnorr_commitment, witnesses, challenge) ==
    [i \in 1 .. Min(Len(schnorr_commitment.blindings), Len(witnesses)) |->
        FAdd(schnorr_commitment.blindings[i], FMul(challenge, witnesses[i]))]

\* SchnorrProtocol::verify_schnorr: sum s_i * b_i = T + c * Y
VerifySchnorr(bases, statement, schnorr_commitment, responses, challenge) ==
    Msm(bases, responses) = FAdd(schnorr_commitment, FMul(challenge, statement))

\* --------------------------------------------------------- commitment proof

\* CommitmentProof::prove, with the sampled blindings and challenge as arguments
CommitmentProofProve(pp, commitment, messages, r, blindings, challenge) ==
    LET bases == GetG1Bases(pp)
        exponents == Append(messages, r)
        schnorr_commitment == SchnorrCommit(bases, blindings)
        responses == SchnorrProve(schnorr_commitment, exponents, challenge)
    IN  [commitment |-> commitment,
         schnorr_commitment |-> schnorr_commitment.commited_blindings,
         bases |-> bases,
         challenge |-> challenge,
         responses |-> responses]

\* A verify that leaves the challenge out of the equation
VerifyWithoutChallenge(proof) ==
    VerifySchnorr(proof.bases, proof.commitment.cm, proof.schnorr_commitment,
                  proof.responses, 0)

\* CommitmentProof::verify
CommitmentProofVerify(proof) ==
    VerifySchnorr(proof.bases, proof.commitment.cm, proof.schnorr_commitment,
                  proof.responses, proof.challenge)

\* ------------------------------------------------------------ pairing check

\* PairingCheck::new: no pairs, target one
PairingCheckNew == [pairs |-> <<>>, target |-> GTOne]

\* create_check(pairs, None): the target defaults to one
CreateCheck(pairs) == [pairs |-> pairs, target |-> GTOne]

\* PairingCheck::merge: concatenate the pair lists, multiply the targets
PairingCheckMerge(a, b) ==
    [pairs |-> a.pairs \o b.pairs, target |-> FAdd(a.target, b.target)]

RECURSIVE PairingProduct(_)
PairingProduct(pairs) ==
    IF pairs = <<>> THEN GTOne
    ELSE FAdd(Pairing(Head(pairs)[1], Head(pairs)[2]), PairingProduct(Tail(pairs)))

\* PairingCheck::verify: the product of the pairings equals the target
PairingCheckVerify(check) == PairingProduct(check.pairs) = check.target

\* -------------------------------------------------------------- signatures

\* generate_keys, with the sampled x as argument
GenerateKeys(pp, x) ==
    [sk |-> [sk |-> FMul(pp.g, x), x |-> x],
     vk |-> [vk_tilde |-> FMul(pp.g_tilde, x)]]

\* Sign with the key left out of the blinding: sigma2 = u * cm + sk
SignKeyNotBlinded(sk, commitment, pp, u) ==
    [sigma1 |-> FMul(pp.g, u),
     sigma2 |-> FAdd(FMul(commitment.cm, u), sk.sk)]

\* SecretKey::sign, with the sampled u as argument
Sign(sk, commitment, pp, u) ==
    [sigma1 |-> FMul(pp.g, u),
     sigma2 |-> FMul(FAdd(commitment.cm, sk.sk), u)]

\* VerificationKey::verify: "true", or "panic" when an assert! fails
VkVerify(vk, signature, commitment, pp) ==
    LET left1 == Pairing(signature.sigma2, pp.g_tilde)
        right1 == Pairing(signature.sigma1, FAdd(vk.vk_tilde, commitment.cm_tilde))
        left2 == Pairing(commitment.cm, pp.g_tilde)
        right2 == Pairing(pp.g, commitment.cm_tilde)
    IN  IF left1 # right1 THEN "panic"
        ELSE IF left2 # right2 THEN "panic"
        ELSE "true"

\* The pairing checker with sigma1 not negated
PairingCheckerNoNeg(vk, signature, commitment, pp) ==
    LET vk_plus_cm_tilde == FAdd(vk.vk_tilde, commitment.cm_tilde)
    IN  FAdd(Pairing(signature.sigma2, pp.g_tilde),
             Pairing(signature.sigma1, vk_plus_cm_tilde)) = GTOne

\* VerificationKey::verify_with_pairing_checker
VerifyWithPairingChecker(vk, signature, commitment, pp) ==
    LET vk_plus_cm_tilde == FAdd(vk.vk_tilde, commitment.cm_tilde)
        sig_check == CreateCheck(<< <<signature.sigma2, pp.g_tilde>>,
                                    <<FNeg(signature.sigma1), vk_plus_cm_tilde>> >>)
        cm_check == CreateCheck(<< <<commitment.cm, pp.g_tilde>>,
                                   <<FNeg(pp.g), commitment.cm_tilde>> >>)
        final_check == PairingCheckMerge(PairingCheckMerge(PairingCheckNew, sig_check),
                                         cm_check)
    IN  PairingCheckVerify(final_check)

\* randomize without the delta_r * delta_u * sigma1 term of sigma2'
RandomizeSigma2Scaled(signature, delta_r, delta_u) ==
    [sigma1 |-> FMul(signature.sigma1, delta_u),
     sigma2 |-> FMul(signature.sigma2, delta_u)]

\* Signature::randomize
SignatureRandomize(signature, delta_r, delta_u) ==
    LET sigma1_prime == FMul(signature.sigma1, delta_u)
        r_times_u == FMul(delta_r, delta_u)
        sigma2_prime == Msm(<<signature.sigma1, signature.sigma2>>, <<r_times_u, delta_u>>)
    IN  [sigma1 |-> sigma1_prime, sigma2 |-> sigma2_prime]

\* --------------------------------------------------------------- credential

\* Credential::new
CredentialNew(ck, pp, messages, r) ==
    [commitment |-> Commit(ck, pp, messages, r),
     messages |-> messages,
     r |-> r,
     signature |-> None,
     state |-> "Committed"]

\* Credential::prove_commitment
CredentialProveCommitment(cred, pp, blindings, challenge) ==
    CommitmentProofProve(pp, cred.commitment, cred.messages, cred.r, blindings, challenge)

\* An add_signature that stores the signature and leaves the state as it is
AddSignatureKeepsState(cred, signature) ==
    [cred EXCEPT !.signature = Some(signature)]

\* Credential::add_signature
CredentialAddSignature(cred, signature) ==
    [cred EXCEPT !.signature = Some(signature), !.state = "Signed"]

\* The guard of Credential::show: it panics on a credential that is not signed
ShowPanics(cred) == cred.state # "Signed" \/ ~IsSome(cred.signature)

\* A show that presents the stored signature as it is
ShowKeepsSignature(cred, pp, delta_r, delta_u, blindings, challenge) ==
    LET new_r == FAdd(cred.r, delta_r)
        randomized_commitment == CommitmentRandomize(cred.commitment, pp, delta_r)
        proof == CommitmentProofProve(pp, randomized_commitment, cred.messages, new_r,
                                      blindings, challenge)
    IN  [randomized_signature |-> Unwrap(cred.signature),
         randomized_commitment |-> randomized_commitment,
         proof |-> proof,
         r_new |-> new_r]

\* Credential::show past its guard: the ShowCredential it returns
CredentialShow(cred, pp, delta_r, delta_u, blindings, challenge) ==
    LET new_r == FAdd(cred.r, delta_r)
        randomized_signature == SignatureRandomize(Unwrap(cred.signature), delta_r, delta_u)
        randomized_commitment == CommitmentRandomize(cred.commitment, pp, delta_r)
        proof == CommitmentProofProve(pp, randomized_commitment, cred.messages, new_r,
                                      blindings, challenge)
    IN  [randomized_signature |-> randomized_signature,
         randomized_commitment |-> randomized_commitment,
         proof |-> proof,
         r_new |-> new_r]

\* verify that accepts a credential without a signature
VerifyAcceptsUnsigned(cred, pp, vk) ==
    IF IsSome(cred.signature)
    THEN VerifyWithPairingChecker(vk, Unwrap(cred.signature), cred.commitment, pp)
    ELSE TRUE

\* Credential::verify
CredentialVerify(cred, pp, vk) ==
    IF IsSome(cred.signature)
    THEN VerifyWithPairingChecker(vk, Unwrap(cred.signature), cred.commitment, pp)
    ELSE FALSE

\* ShowCredential::verify: "true", "false", or "panic" out of VerificationKey::verify
ShowCredentialVerify(show_cred, pp, vk) ==
    IF ~CommitmentProofVerify(show_cred.proof) THEN "false"
    ELSE LET v == VkVerify(vk, show_cred.randomized_signature,
                           show_cred.randomized_commitment, pp)
         IN  IF v = "panic" THEN "panic"
             ELSE IF v # "true" THEN "false"
             ELSE "true"

\* --------------------------------------------------------------- aggregate

\* AggregatePresentation::new
AggregatePresentationNew(presentations) ==
    [randomized_signatures |->
         [i \in 1 .. Len(presentations) |-> presentations[i].randomized_signature],
     randomized_commitments |->
         [i \in 1 .. Len(presentations) |-> presentations[i].randomized_commitment],
     proofs |-> [i \in 1 .. Len(presentations) |-> presentations[i].proof]]

\* AggregatePresentation::verify_all: "true", "false", or "panic" out of
\* VerificationKey::verify
AggregateVerifyAll(agg, pp, vk) ==
    IF \E i \in 1 .. Len(agg.proofs) : ~CommitmentProofVerify(agg.proofs[i])
    THEN "false"
    ELSE IF \E i \in 1 .. Len(agg.randomized_signatures) :
                VkVerify(vk, agg.randomized_signatures[i],
                         agg.randomized_commitments[i], pp) = "panic"
         THEN "panic"
         ELSE "true"

\* final_check of AggregatePresentation::batch_verify after the first k
\* (signature, proof) pairs of the zip
RECURSIVE BatchCheckUpTo(_, _, _, _)
BatchCheckUpTo(agg, pp, vk, k) ==
    IF k = 0 THEN PairingCheckNew
    ELSE LET signature == agg.randomized_signatures[k]
             proof_ == agg.proofs[k]
             vk_plus_cm_tilde == FAdd(vk.vk_tilde, proof_.commitment.cm_tilde)
             sig_check == CreateCheck(<< <<signature.sigma2, pp.g_tilde>>,
                                         <<FNeg(signature.sigma1), vk_plus_cm_tilde>> >>)
             cm_check == CreateCheck(<< <<proof_.commitment.cm, pp.g_tilde>>,
                                        <<FNeg(pp.g), proof_.commitment.cm_tilde>> >>)
         IN  PairingCheckMerge(PairingCheckMerge(BatchCheckUpTo(agg, pp, vk, k - 1),
                                                 sig_check),
                               cm_check)

\* AggregatePresentation::batch_verify
AggregateBatchVerify(agg, pp, vk) ==
    IF \E i \in 1 .. Len(agg.proofs) : ~CommitmentProofVerify(agg.proofs[i])
    THEN FALSE
    ELSE PairingCheckVerify(
             BatchCheckUpTo(agg, pp, vk,
                            Min(Len(agg.randomized_signatures), Len(agg.proofs))))

\* CredentialAggregation::aggregate_credentials past the guard of show;
\* coins[i] holds what the rng returns for credentials[i]
AggregateCredentials(creds, pp, coins) ==
    AggregatePresentationNew(
        [i \in 1 .. Len(creds) |->
            CredentialShow(creds[i], pp, coins[i].delta_r, coins[i].delta_u,
                           coins[i].blindings, coins[i].challenge)])

\* --------------------------------------------------------- identity binding

\* Result<T, Error>: Ok(v), and Err(Error::Other(msg))
OkVal(v) == [tag |-> "Ok", val |-> Some(v), err |-> ""]
ErrOther(msg) == [tag |-> "Err", val |-> None, err |-> msg]

\* the construction with an independent blinding at position 0 of every
\* credential after the first
ConstructUnsharedBlinding(commitments, messages, randomness, public_params, common_blinding, rest_blindings, challenge) ==
    LET schnorr_commitments ==
            [i \in 1 .. Len(commitments) |->
                SchnorrCommit(GetG1Bases(public_params[i]),
                              <<(common_blinding + i - 1) % Q>> \o rest_blindings[i])]
    IN  [commitments |-> commitments,
         schnorr_commitments |-> schnorr_commitments,
         challenge |-> challenge,
         responses |-> [i \in 1 .. Len(commitments) |->
                           SchnorrProve(schnorr_commitments[i],
                                        Append(messages[i], randomness[i]), challenge)]]

\* IdentityBindingProof::prove past its checks, with the sampled
\* common_blinding, the other blindings of each credential and the challenge
\* as arguments
IdentityBindingConstruct(commitments, messages, randomness, public_params, common_blinding, rest_blindings, challenge) ==
    LET schnorr_commitments ==
            [i \in 1 .. Len(commitments) |->
                SchnorrCommit(GetG1Bases(public_params[i]),
                              <<common_blinding>> \o rest_blindings[i])]
    IN  [commitments |-> commitments,
         schnorr_commitments |-> schnorr_commitments,
         challenge |-> challenge,
         responses |-> [i \in 1 .. Len(commitments) |->
                           SchnorrProve(schnorr_commitments[i],
                                        Append(messages[i], randomness[i]), challenge)]]

\* prove with the identifier check made before the other two
ProveIdentifiersFirst(commitments, messages, randomness, public_params, common_blinding, rest_blindings, challenge) ==
    IF /\ messages # <<>>
       /\ messages[1] # <<>>
       /\ \E i \in 2 .. Len(messages) :
            messages[i] # <<>> /\ messages[i][1] # messages[1][1]
    THEN ErrOther("User identifiers must be identical")
    ELSE IF \/ Len(commitments) = 0
            \/ Len(commitments) # Len(messages)
            \/ Len(commitments) # Len(randomness)
            \/ Len(commitments) # Len(public_params)
    THEN ErrOther("Mismatched input lengths")
    ELSE IF \E i \in 1 .. Len(messages) : messages[i] = <<>>
    THEN ErrOther("Messages must have at least one element")
    ELSE OkVal(IdentityBindingConstruct(commitments, messages, randomness,
                                        public_params, common_blinding,
                                        rest_blindings, challenge))

\* IdentityBindingProof::prove (IdentityBinding::prove forwards to it)
IdentityBindingProve(commitments, messages, randomness, public_params, common_blinding, rest_blindings, challenge) ==
    IF \/ Len(commitments) = 0
       \/ Len(commitments) # Len(messages)
       \/ Len(commitments) # Len(randomness)
       \/ Len(commitments) # Len(public_params)
    THEN ErrOther("Mismatched input lengths")
    ELSE IF \E i \in 1 .. Len(messages) : messages[i] = <<>>
    THEN ErrOther("Messages must have at least one element")
    ELSE IF \E i \in 2 .. Len(messages) : messages[i][1] # messages[1][1]
    THEN ErrOther("User identifiers must be identical")
    ELSE OkVal(IdentityBindingConstruct(commitments, messages, randomness,
                                        public_params, common_blinding,
                                        rest_blindings, challenge))

\* verify without the comparison of the responses at position 0
VerifySchnorrProofsOnly(proof_, public_params) ==
    IF \/ Len(proof_.commitments) = 0
       \/ Len(proof_.commitments) # Len(proof_.schnorr_commitments)
       \/ Len(proof_.commitments) # Len(proof_.responses)
       \/ Len(proof_.commitments) # Len(public_params)
    THEN "Err(Mismatched proof component lengths)"
    ELSE IF \E i \in 1 .. Len(proof_.commitments) :
                ~VerifySchnorr(GetG1Bases(public_params[i]), proof_.commitments[i].cm,
                               proof_.schnorr_commitments[i].commited_blindings,
                               proof_.responses[i], proof_.challenge)
    THEN "Ok(false)"
    ELSE "Ok(true)"

\* IdentityBindingProof::verify (IdentityBinding::verify forwards to it)
IdentityBindingVerify(proof_, public_params) ==
    IF \/ Len(proof_.commitments) = 0
       \/ Len(proof_.commitments) # Len(proof_.schnorr_commitments)
       \/ Len(proof_.commitments) # Len(proof_.responses)
       \/ Len(proof_.commitments) # Len(public_params)
    THEN "Err(Mismatched proof component lengths)"
    ELSE IF \E i \in 1 .. Len(proof_.commitments) :
                ~VerifySchnorr(GetG1Bases(public_params[i]), proof_.commitments[i].cm,
                               proof_.schnorr_commitments[i].commited_blindings,
                               proof_.responses[i], proof_.challenge)
    THEN "Ok(false)"
    ELSE IF \E i \in 2 .. Len(proof_.responses) :
                proof_.responses[i][1] # proof_.responses[1][1]
    THEN "Ok(false)"
    ELSE "Ok(true)"

\* ----------------------------------------------------------------- protocol

Ok(sig) == [tag |-> "Ok", sig |-> Some(sig), err |-> ""]
Err(e) == [tag |-> "Err", sig |-> None, err |-> e]
NoResult == [tag |-> "none", sig |-> None, err |-> ""]

\* issue without the check of the proof
IssueUnchecked(protocol_, proof_, sk, u) ==
    Ok(Sign(sk, proof_.commitment, protocol_.pp, u))

\* MimcAbc::issue, with the u that sign samples as argument
MimcAbcIssue(protocol_, proof_, sk, u) ==
    IF ~CommitmentProofVerify(proof_) THEN Err("InvalidProof")
    ELSE Ok(Sign(sk, proof_.commitment, protocol_.pp, u))

\* -------------------------------------------------------- linked credentials

\* A call that panics returns nothing
Panicked == [tag |-> "panic", val |-> None, err |-> ""]

\* The least element of a non-empty set of numbers
MinOf(S) == CHOOSE i \in S : \A j \in S : i <= j

\* create that builds the identity binding proof without the checks of prove
CreateUnlinked(creds, public_params, show_coins, common_blinding, rest_blindings, challenge) ==
    IF creds = <<>> THEN ErrOther("No credentials provided")
    ELSE IF \E i \in 1 .. Len(creds) :
                i > Len(public_params) \/ ShowPanics(creds[i])
    THEN Panicked
    ELSE LET credential_presentations ==
                 [i \in 1 .. Len(creds) |->
                     CredentialShow(creds[i], public_params[i],
                                    show_coins[i].delta_r, show_coins[i].delta_u,
                                    show_coins[i].blindings, show_coins[i].challenge)]
         IN  OkVal([credential_presentations |-> credential_presentations,
                    identity_proof |->
                        IdentityBindingConstruct(
                            [i \in 1 .. Len(creds) |->
                                credential_presentations[i].randomized_commitment],
                            [i \in 1 .. Len(creds) |-> creds[i].messages],
                            [i \in 1 .. Len(creds) |-> credential_presentations[i].r_new],
                            public_params, common_blinding, rest_blindings,
                            challenge)])

\* LinkedCredentialPresentation::create; show_coins[i] holds what the rng
\* returns for the show of credentials[i], the last three arguments what it
\* returns for the identity binding proof
LinkedCreate(creds, public_params, show_coins, common_blinding, rest_blindings, challenge) ==
    IF creds = <<>> THEN ErrOther("No credentials provided")
    ELSE IF \E i \in 1 .. Len(creds) :
                i > Len(public_params) \/ ShowPanics(creds[i])
    THEN Panicked
    ELSE LET credential_presentations ==
                 [i \in 1 .. Len(creds) |->
                     CredentialShow(creds[i], public_params[i],
                                    show_coins[i].delta_r, show_coins[i].delta_u,
                                    show_coins[i].blindings, show_coins[i].challenge)]
             randomized_commitments ==
                 [i \in 1 .. Len(creds) |->
                     credential_presentations[i].randomized_commitment]
             messages == [i \in 1 .. Len(creds) |-> creds[i].messages]
             randomness == [i \in 1 .. Len(creds) |-> credential_presentations[i].r_new]
             identity_proof ==
                 IdentityBindingProve(randomized_commitments, messages, randomness,
                                      public_params, common_blinding, rest_blindings,
                                      challenge)
         IN  IF identity_proof.tag = "Err" THEN identity_proof
             ELSE OkVal([credential_presentations |-> credential_presentations,
                         identity_proof |-> Unwrap(identity_proof.val)])

\* The outcome of the i-th iteration of the loop of verify: "true", "false",
\* or "panic" (an index out of bounds, or out of VerificationKey::verify)
LinkedVerifyStep(lp, public_params, verification_keys, i) ==
    IF i > Len(public_params) \/ i > Len(verification_keys) THEN "panic"
    ELSE ShowCredentialVerify(lp.credential_presentations[i], public_params[i],
                              verification_keys[i])

\* verify that checks presentation i against the key at the mirrored position
VerifyKeysReversed(lp, public_params, verification_keys) ==
    LET identity == IdentityBindingVerify(lp.identity_proof, public_params)
        keys == [i \in 1 .. Len(verification_keys) |->
                    verification_keys[Len(verification_keys) + 1 - i]]
        failing == {i \in 1 .. Len(lp.credential_presentations) :
                       LinkedVerifyStep(lp, public_params, keys, i) # "true"}
    IN  IF identity # "Ok(true)" THEN identity
        ELSE IF failing = {} THEN "Ok(true)"
        ELSE IF LinkedVerifyStep(lp, public_params, keys, MinOf(failing)) = "panic"
        THEN "panic"
        ELSE "Ok(false)"

\* LinkedCredentialPresentation::verify: "Ok(true)", "Ok(false)", "Err(..)"
\* or "panic"
LinkedVerify(lp, public_params, verification_keys) ==
    LET identity == IdentityBindingVerify(lp.identity_proof, public_params)
        failing == {i \in 1 .. Len(lp.credential_presentations) :
                       LinkedVerifyStep(lp, public_params, verification_keys, i)
                           # "true"}
    IN  IF identity # "Ok(true)" THEN identity
        ELSE IF failing = {} THEN "Ok(true)"
        ELSE IF LinkedVerifyStep(lp, public_params, verification_keys,
                                 MinOf(failing)) = "panic"
        THEN "panic"
        ELSE "Ok(false)"

\* Issuer::new(id, num_attributes, rng), with what the rng returns as arguments
IssuerNew(id, num_attributes, x, y_values) ==
    LET pp == PublicParamsNew(num_attributes, 1, 1, y_values)
        keys == GenerateKeys(pp, x)
    IN  [id |-> id, protocol |-> MimcAbcNew(pp), sk |-> keys.sk, vk |-> keys.vk]

\* The credential that User::obtain_credential stores: Credential::new,
\* prove_commitment, issue, add_signature
ObtainedCredential(issuer, all_attributes, r, blindings, challenge, u) ==
    LET cred == CredentialNew(issuer.protocol.ck, issuer.protocol.pp,
                              all_attributes, r)
        proof_ == CredentialProveCommitment(cred, issuer.protocol.pp, blindings,
                                            challenge)
        signature == MimcAbcIssue(issuer.protocol, proof_, issuer.sk, u)
    IN  IF signature.tag = "Ok"
        THEN CredentialAddSignature(cred, Unwrap(signature.sig))
        ELSE cred

\* -------------------------------------------------------------------- state

VARIABLES
    protocol,      \* MimcAbc { pp, ck } returned by MimcAbc::setup
    issuer_sk,     \* SecretKey returned by setup
    issuer_vk,     \* VerificationKey returned by setup
    credential,    \* Option: the user's Credential
    origin,        \* where credential.signature came from: "none", "issued", "forged"
    proof,         \* Option: the CommitmentProof the caller holds
    proof_origin,  \* where proof came from: "none", "obtain", "tampered"
    issued,        \* the Result of the last MimcAbc::issue
    presentation,  \* Option: the ShowCredential returned by the last show
    shows,         \* successful shows of the stored signature so far
    credentials,   \* Vec<Credential>: the credentials collected for a batch
    origins,       \* origins[i] is where credentials[i].signature came from
    aggregate,     \* Option: the AggregatePresentation of credentials
    randomized,    \* Option: the arguments and results of a randomize call
    binding,       \* Option: the arguments and the Result of IdentityBinding::prove
    linked,        \* Option: the arguments and the Result of LinkedCredentialPresentation::create
    checked,       \* Option: the arguments and results of the two signature verifiers
    vkproof,       \* Option: the public parameters, key and VerKeyProof a verifier is given
    system,        \* MultiIssuerSystem: issuers[i] is the issuer with id i - 1
    user,          \* Option: the User { id, credentials }
    ret            \* the last call: [op, val, args]

vars == <<protocol, issuer_sk, issuer_vk, credential, origin, proof, proof_origin,
          issued, presentation, shows, credentials, origins, aggregate, randomized,
          binding, linked, checked, vkproof, system, user, ret>>
setupVars == <<protocol, issuer_sk, issuer_vk>>
proofVars == <<proof, proof_origin>>
showVars == <<presentation, shows>>
batchVars == <<credentials, origins, aggregate>>
extVars == <<binding, linked, checked, vkproof>>
userVars == <<system, user>>
fnVars == <<randomized, extVars>>

Ret(op, val, args) == [op |-> op, val |-> val, args |-> args]

\* a panic ends the run
Running == ret.val # "panic"

\* MimcAbc::setup(n) for every outcome of the rng.  G1 and G2 elements are
\* written as multiples of pp.g and pp.g_tilde, so both generators are 1.
Setup ==
    \E n \in AttrCounts, x \in KeyScalars :
      \E y_values \in SeqN(KeyScalars, n) :
        LET pp == PublicParamsNew(n, 1, 1, y_values)
            keys == GenerateKeys(pp, x)
        IN  /\ protocol = MimcAbcNew(pp)
            /\ issuer_sk = keys.sk
            /\ issuer_vk = keys.vk

Init ==
    /\ Setup
    /\ credential = None
    /\ origin = "none"
    /\ proof = None
    /\ proof_origin = "none"
    /\ issued = NoResult
    /\ presentation = None
    /\ shows = 0
    /\ credentials = <<>>
    /\ origins = <<>>
    /\ aggregate = None
    /\ randomized = None
    /\ binding = None
    /\ linked = None
    /\ checked = None
    /\ vkproof = None
    /\ system = <<>>
    /\ user = None
    /\ ret = Ret("setup", "unit", <<>>)

\* Credential::new(&protocol.ck, &protocol.pp, &messages, r)
New ==
    /\ Running
    /\ credential = None
    /\ Len(credentials) < MaxBatch
    /\ \E messages \in SeqN(Scalars, protocol.pp.n), r \in Scalars :
         credential' = Some(CredentialNew(protocol.ck, protocol.pp, messages, r))
    /\ ret' = Ret("new", "unit", <<>>)
    /\ UNCHANGED <<setupVars, userVars, batchVars, fnVars, origin, proofVars, issued, showVars>>

\* protocol.obtain(&credential) and protocol.issue(&proof, &issuer_sk) on the
\* proof it returns, as in test_mimc_abc_credential_lifecycle
Issue ==
    /\ Running
    /\ IsSome(credential)
    /\ issued.tag = "none"
    /\ \E blindings \in BlindingVectors(protocol.pp.n + 1), challenge \in Challenges,
          u \in KeyScalars :
         issued' = MimcAbcIssue(protocol,
                       CredentialProveCommitment(Unwrap(credential), protocol.pp,
                                                 blindings, challenge),
                       issuer_sk, u)
    /\ ret' = Ret("issue", issued'.tag, <<>>)
    /\ UNCHANGED <<setupVars, userVars, batchVars, fnVars, credential, origin, proofVars, showVars>>

\* credential.add_signature(signature) with (a clone of) the signature issue
\* returned; the caller drops the presentation of the signature it replaces
AddSignature ==
    /\ Running
    /\ IsSome(credential)
    /\ issued.tag = "Ok"
    /\ credential' = Some(CredentialAddSignature(Unwrap(credential), Unwrap(issued.sig)))
    /\ origin' = "issued"
    /\ presentation' = None
    /\ shows' = 0
    /\ ret' = Ret("add_signature", "unit", <<>>)
    /\ UNCHANGED <<setupVars, userVars, batchVars, fnVars, proofVars, issued>>

\* credential.add_signature(signature) with the issued signature's sigma2
\* replaced by another G1 element
AddForgedSignature ==
    /\ Running
    /\ IsSome(credential)
    /\ issued.tag = "Ok"
    /\ \E sigma2 \in G1 \ {Unwrap(issued.sig).sigma2} :
         credential' = Some(CredentialAddSignature(Unwrap(credential),
                             [Unwrap(issued.sig) EXCEPT !.sigma2 = sigma2]))
    /\ origin' = "forged"
    /\ presentation' = None
    /\ shows' = 0
    /\ ret' = Ret("add_signature", "unit", <<>>)
    /\ UNCHANGED <<setupVars, userVars, batchVars, fnVars, proofVars, issued>>

\* show that marks the credential Randomized
ShowMarksRandomized ==
    /\ Running
    /\ IsSome(credential)
    /\ shows < MaxShows
    /\ \E delta_r \in Scalars, delta_u \in Scalars :
       \E coins \in ShowCoins(protocol.pp.n + 1) :
         IF ShowPanics(Unwrap(credential))
         THEN /\ ret' = Ret("show", "panic", <<delta_r, delta_u>>)
              /\ UNCHANGED <<showVars, credential>>
         ELSE /\ presentation' = Some(CredentialShow(Unwrap(credential), protocol.pp,
                                          delta_r, delta_u, coins.blindings,
                                          coins.challenge))
              /\ shows' = shows + 1
              /\ credential' = Some([Unwrap(credential) EXCEPT !.state = "Randomized"])
              /\ ret' = Ret("show", "Ok", <<delta_r, delta_u>>)
    /\ UNCHANGED <<setupVars, userVars, batchVars, fnVars, origin, proofVars, issued>>

\* credential.show(&pp, &delta_r, &delta_u, rng)
Show ==
    /\ Running
    /\ IsSome(credential)
    /\ shows < MaxShows
    /\ \E delta_r \in Scalars, delta_u \in Scalars :
       \E coins \in ShowCoins(protocol.pp.n + 1) :
         IF ShowPanics(Unwrap(credential))
         THEN /\ ret' = Ret("show", "panic", <<delta_r, delta_u>>)
              /\ UNCHANGED showVars
         ELSE /\ presentation' = Some(CredentialShow(Unwrap(credential), protocol.pp,
                                          delta_r, delta_u, coins.blindings,
                                          coins.challenge))
              /\ shows' = shows + 1
              /\ ret' = Ret("show", "Ok", <<delta_r, delta_u>>)
    /\ UNCHANGED <<setupVars, userVars, batchVars, fnVars, credential, origin, proofVars, issued>>

\* credential.verify(&pp, &issuer_vk)
Verify ==
    /\ Running
    /\ IsSome(credential)
    /\ ret' = Ret("verify", BoolStr(CredentialVerify(Unwrap(credential), protocol.pp,
                                                     issuer_vk)), <<>>)
    /\ UNCHANGED <<setupVars, userVars, batchVars, fnVars, credential, origin, proofVars, issued, showVars>>

\* MimcAbc::verify(presentation, &issuer_vk): show_cred.verify(&pp, vk)
VerifyShow ==
    /\ Running
    /\ IsSome(presentation)
    /\ ret' = Ret("verify_show", ShowCredentialVerify(Unwrap(presentation), protocol.pp,
                                                      issuer_vk), <<>>)
    /\ UNCHANGED <<setupVars, userVars, batchVars, fnVars, credential, origin, proofVars, issued, showVars>>

Next ==
    \/ New
    \/ Issue
    \/ AddSignature
    \/ AddForgedSignature
    \/ Show
    \/ Verify
    \/ VerifyShow

Spec == Init /\ [][Next]_vars

\* ----------------------------------------------------------------- issuance

\* protocol.obtain(&credential): the proof is kept by the caller
Obtain ==
    /\ Running
    /\ IsSome(credential)
    /\ proof = None
    /\ \E blindings \in BlindingVectors(protocol.pp.n + 1), challenge \in Challenges :
         proof' = Some(CredentialProveCommitment(Unwrap(credential), protocol.pp,
                                                 blindings, challenge))
    /\ proof_origin' = "obtain"
    /\ ret' = Ret("obtain", "unit", <<>>)
    /\ UNCHANGED <<setupVars, userVars, batchVars, fnVars, credential, origin, issued, showVars>>

\* The proofs that differ from p in one response, in the challenge, in the
\* Schnorr commitment or in the G1 part of the commitment (the fields are pub)
Tampered(p) ==
    {[p EXCEPT !.responses[i] = v] :
        i \in 1 .. Len(p.responses), v \in F}
    \cup {[p EXCEPT !.challenge = v] : v \in F}
    \cup {[p EXCEPT !.schnorr_commitment = v] : v \in G1}
    \cup {[p EXCEPT !.commitment.cm = v] : v \in G1}

\* The field in which q differs from p
ChangedField(p, q) ==
    IF q.responses # p.responses THEN "responses"
    ELSE IF q.challenge # p.challenge THEN "challenge"
    ELSE IF q.schnorr_commitment # p.schnorr_commitment THEN "schnorr_commitment"
    ELSE "commitment"

\* The caller alters the proof before handing it to the issuer
TamperProof ==
    /\ Running
    /\ proof_origin = "obtain"
    /\ issued.tag = "none"
    /\ \E q \in Tampered(Unwrap(proof)) \ {Unwrap(proof)} :
         /\ proof' = Some(q)
         /\ ret' = Ret("tamper", "unit", <<ChangedField(Unwrap(proof), q)>>)
    /\ proof_origin' = "tampered"
    /\ UNCHANGED <<setupVars, userVars, batchVars, fnVars, credential, origin, issued, showVars>>

\* protocol.issue(&proof, &issuer_sk, rng) on the proof the caller holds
IssueProof ==
    /\ Running
    /\ IsSome(proof)
    /\ issued.tag = "none"
    /\ \E u \in KeyScalars :
         issued' = MimcAbcIssue(protocol, Unwrap(proof), issuer_sk, u)
    /\ ret' = Ret("issue", issued'.tag, <<>>)
    /\ UNCHANGED <<setupVars, userVars, batchVars, fnVars, credential, origin, proofVars, showVars>>

\* Public parameters of the same size as pp with other bases (every y_i
\* replaced by the other key scalar)
OtherParams(pp) ==
    PublicParamsNew(pp.n, pp.g, pp.g_tilde, [i \in 1 .. pp.n |-> 1 + (pp.y_values[i] % 2)])

\* The caller commits to the credential's messages under public parameters of
\* its own and proves that commitment with prove_commitment: a CommitmentProof
\* whose bases are not the issuer's
ObtainOverOtherBases ==
    /\ Running
    /\ IsSome(credential)
    /\ proof = None
    /\ \E challenge \in Challenges :
         LET pp == OtherParams(protocol.pp)
             own == CredentialNew(MimcAbcNew(pp).ck, pp, Unwrap(credential).messages,
                                  Unwrap(credential).r)
         IN  proof' = Some(CredentialProveCommitment(own, pp,
                                                     [i \in 1 .. pp.n + 1 |-> 3],
                                                     challenge))
    /\ proof_origin' = "other_bases"
    /\ ret' = Ret("obtain_other", "unit", <<>>)
    /\ UNCHANGED <<setupVars, userVars, batchVars, fnVars, credential, origin, issued, showVars>>

NextIssue ==
    \/ New
    \/ Obtain
    \/ ObtainOverOtherBases
    \/ TamperProof
    \/ IssueProof
    \/ AddSignature
    \/ Verify

SpecIssue == Init /\ [][NextIssue]_vars

\* ---------------------------------------------------------------- randomize

\* sigma.randomize(delta_r, delta_u) and commitment.randomize(pp, delta_r) for
\* a signature (any two G1 elements), a commitment of the commitment key and
\* any two scalars
Randomize ==
    /\ randomized = None
    /\ \E sigma1 \in G1, sigma2 \in G1, delta_r \in F, delta_u \in F :
       \E messages \in SeqN(Scalars, protocol.pp.n), r \in Scalars :
         LET signature == [sigma1 |-> sigma1, sigma2 |-> sigma2]
             commitment == Commit(protocol.ck, protocol.pp, messages, r)
         IN  randomized' =
                 Some([signature |-> signature,
                       messages |-> messages,
                       r |-> r,
                       commitment |-> commitment,
                       delta_r |-> delta_r,
                       delta_u |-> delta_u,
                       randomized_signature |->
                           SignatureRandomize(signature, delta_r, delta_u),
                       randomized_commitment |->
                           CommitmentRandomize(commitment, protocol.pp, delta_r)])
    /\ ret' = Ret("randomize", "unit", <<>>)
    /\ UNCHANGED <<setupVars, userVars, batchVars, extVars, credential, origin, proofVars, issued, showVars>>

NextRandomize == Randomize

SpecRandomize == Init /\ [][NextRandomize]_vars

\* ---------------------------------------------------------------- aggregate

\* The keys of the batch runs
InitAggregate ==
    /\ Init
    /\ issuer_sk.x = 1
    /\ protocol.pp.y_values = [i \in 1 .. protocol.pp.n |-> 1 + (i % 2)]

\* credentials.push(credential): the credential moves into the vector
PushCredential ==
    /\ Running
    /\ IsSome(credential)
    /\ Unwrap(credential).state = "Signed"
    /\ Len(credentials) < MaxBatch
    /\ credentials' = Append(credentials, Unwrap(credential))
    /\ origins' = Append(origins, origin)
    /\ credential' = None
    /\ origin' = "none"
    /\ issued' = NoResult
    /\ ret' = Ret("push", "unit", <<>>)
    /\ UNCHANGED <<setupVars, userVars, aggregate, fnVars, proofVars, showVars>>

\* CredentialAggregation::aggregate_credentials(&credentials, &pp, rng); the
\* rng returns delta_r and delta_u for each credential, and the same proof
\* coins for all of them
Aggregate ==
    /\ Running
    /\ Len(credentials) = MaxBatch
    /\ aggregate = None
    /\ \E delta_rs \in SeqN(Scalars, Len(credentials)),
          delta_us \in SeqN(Scalars, Len(credentials)) :
       \E proof_coins \in ShowCoins(protocol.pp.n + 1) :
         LET coins == [i \in 1 .. Len(credentials) |->
                          [delta_r |-> delta_rs[i], delta_u |-> delta_us[i],
                           blindings |-> proof_coins.blindings,
                           challenge |-> proof_coins.challenge]]
         IN  IF \E i \in 1 .. Len(credentials) : ShowPanics(credentials[i])
             THEN /\ ret' = Ret("aggregate_credentials", "panic", <<>>)
                  /\ UNCHANGED aggregate
             ELSE /\ aggregate' = Some(AggregateCredentials(credentials, protocol.pp,
                                                            coins))
                  /\ ret' = Ret("aggregate_credentials", "Ok", <<>>)
    /\ UNCHANGED <<setupVars, userVars, credentials, origins, fnVars, credential, origin,
                   proofVars, issued, showVars>>

\* aggregate.verify_all(&pp, &issuer_vk)
VerifyAll ==
    /\ Running
    /\ IsSome(aggregate)
    /\ ret' = Ret("verify_all", AggregateVerifyAll(Unwrap(aggregate), protocol.pp,
                                                   issuer_vk), <<>>)
    /\ UNCHANGED <<setupVars, userVars, batchVars, fnVars, credential, origin, proofVars,
                   issued, showVars>>

\* aggregate.batch_verify(&pp, &issuer_vk)
BatchVerify ==
    /\ Running
    /\ IsSome(aggregate)
    /\ ret' = Ret("batch_verify",
                  BoolStr(AggregateBatchVerify(Unwrap(aggregate), protocol.pp,
                                               issuer_vk)), <<>>)
    /\ UNCHANGED <<setupVars, userVars, batchVars, fnVars, credential, origin, proofVars,
                   issued, showVars>>

NextAggregate ==
    \/ New
    \/ Issue
    \/ AddSignature
    \/ AddForgedSignature
    \/ Verify
    \/ PushCredential
    \/ Aggregate
    \/ VerifyAll
    \/ BatchVerify

SpecAggregate == InitAggregate /\ [][NextAggregate]_vars

\* --------------------------------------------------------- identity binding

\* The public parameters of the issuers: PublicParams::new(n) for every
\* outcome of the rng (both generators are 1, as in Setup)
IssuerParams(counts, y) ==
    [i \in 1 .. Len(counts) |->
        PublicParamsNew(counts[i], 1, 1,
                        [j \in 1 .. counts[i] |-> 1 + ((y + i + j) % 2)])]

\* The attribute vectors a user holds for k credentials: the first attribute
\* is id in all of them, except in credential odd (0: none) where it is
\* id + 1; the second attribute is other
UserMessages(k, id, odd, other) ==
    [i \in 1 .. k |-> <<IF i = odd THEN (id + 1) % Q ELSE id, other>>]

\* The randomness of k commitments, r being that of the first
UserRandomness(k, r) == [i \in 1 .. k |-> (r + i - 1) % Q]

\* The commitment key of public parameters
CommitmentKeyOf(pp) == [ck |-> pp.ck, ck_tilde |-> pp.ck_tilde]

\* Message vectors for the public parameters pps: those of all, cut to the
\* attribute count of their issuer
CutToParams(all, pps) == [i \in 1 .. Len(pps) |-> SubSeq(all[i], 1, pps[i].n)]

\* One more blinding for every base after the first, for each of pps
RestBlindings(pps, b) ==
    [i \in 1 .. Len(pps) |-> [j \in 1 .. pps[i].n |-> (b + i + j) % Q]]

\* Outcomes of the rng for the shared challenge
BindingChallenges == {0} \cup Challenges

\* s without its last element
DropLast(s) == SubSeq(s, 1, Len(s) - 1)

\* The four slices one call of prove is given: commitments of messages under
\* public_params with randomness, then one of the slices shortened or one
\* message vector emptied
BindingInputs(public_params, messages, randomness, shape, emptied) ==
    LET commitments == [i \in 1 .. Len(public_params) |->
                           Commit(CommitmentKeyOf(public_params[i]), public_params[i],
                                  messages[i], randomness[i])]
    IN  [commitments |-> IF shape = "commitments" THEN DropLast(commitments)
                         ELSE commitments,
         messages |-> LET ms == [i \in 1 .. Len(messages) |->
                                    IF i = emptied THEN <<>> ELSE messages[i]]
                      IN  IF shape = "messages" THEN DropLast(ms) ELSE ms,
         randomness |-> IF shape = "randomness" THEN DropLast(randomness)
                        ELSE randomness,
         public_params |-> IF shape = "public_params" THEN DropLast(public_params)
                           ELSE public_params]

Shapes == {"same", "commitments", "messages", "randomness", "public_params"}

\* IdentityBinding::prove(&commitments, &messages, &randomness, &public_params, rng)
\* on slices of one length with no empty message vector
BindingProve ==
    /\ binding = None
    /\ \E k \in 1 .. MaxLinked :
       \E counts \in SeqN(IssuerAttrCounts, k), y \in KeyScalars,
          id \in Scalars, odd \in 0 .. k, other \in Scalars, r \in Scalars :
       \E common_blinding \in Blindings, challenge \in BindingChallenges :
         LET public_params == IssuerParams(counts, y)
             all == UserMessages(k, id, odd, other)
             randomness == UserRandomness(k, r)
             in == BindingInputs(public_params, CutToParams(all, public_params),
                                 randomness, "same", 0)
         IN  binding' =
                 Some([commitments |-> in.commitments,
                       messages |-> in.messages,
                       randomness |-> in.randomness,
                       public_params |-> in.public_params,
                       prechecked |-> TRUE,
                       result |-> IdentityBindingProve(
                                      in.commitments, in.messages, in.randomness,
                                      in.public_params, common_blinding,
                                      RestBlindings(in.public_params, common_blinding),
                                      challenge)])
    /\ ret' = Ret("binding_prove", binding'[1].result.tag, <<>>)
    /\ UNCHANGED <<setupVars, userVars, batchVars, randomized, linked, checked, vkproof,
                   credential, origin, proofVars, issued, showVars>>

\* IdentityBinding::prove on no commitments, on slices of different lengths or
\* with an empty message vector; the rng is not reached
BindingProveMalformed ==
    /\ binding = None
    /\ \E k \in 0 .. MaxLinked :
       \E counts \in SeqN(IssuerAttrCounts, k), y \in KeyScalars,
          id \in Scalars, odd \in 0 .. k, other \in Scalars, r \in Scalars,
          shape \in Shapes, emptied \in 0 .. k :
         LET public_params == IssuerParams(counts, y)
             all == UserMessages(k, id, odd, other)
             randomness == UserRandomness(k, r)
             in == BindingInputs(public_params, CutToParams(all, public_params),
                                 randomness,
                                 IF k = 0 THEN "same" ELSE shape, emptied)
         IN  /\ k = 0 \/ shape # "same" \/ emptied # 0
             /\ binding' =
                 Some([commitments |-> in.commitments,
                       messages |-> in.messages,
                       randomness |-> in.randomness,
                       public_params |-> in.public_params,
                       prechecked |-> TRUE,
                       result |-> IdentityBindingProve(
                                      in.commitments, in.messages, in.randomness,
                                      in.public_params, 0,
                                      RestBlindings(in.public_params, 0), 0)])
    /\ ret' = Ret("binding_prove", binding'[1].result.tag, <<>>)
    /\ UNCHANGED <<setupVars, userVars, batchVars, randomized, linked, checked, vkproof,
                   credential, origin, proofVars, issued, showVars>>

\* The construction steps of prove applied to openings whose first attributes
\* differ: the prover skips the checks
BindingProveUnchecked ==
    /\ binding = None
    /\ \E k \in 2 .. MaxLinked :
       \E counts \in SeqN(IssuerAttrCounts, k), y \in KeyScalars,
          id \in Scalars, odd \in 0 .. k, other \in Scalars, r \in Scalars :
       \E common_blinding \in Blindings, challenge \in BindingChallenges :
         LET public_params == IssuerParams(counts, y)
             all == UserMessages(k, id, odd, other)
             randomness == UserRandomness(k, r)
             in == BindingInputs(public_params, CutToParams(all, public_params),
                                 randomness, "same", 0)
         IN  /\ \E i \in 2 .. k : in.messages[i][1] # in.messages[1][1]
             /\ binding' =
                 Some([commitments |-> in.commitments,
                       messages |-> in.messages,
                       randomness |-> in.randomness,
                       public_params |-> in.public_params,
                       prechecked |-> FALSE,
                       result |-> OkVal(IdentityBindingConstruct(
                                      in.commitments, in.messages, in.randomness,
                                      in.public_params, common_blinding,
                                      RestBlindings(in.public_params, common_blinding),
                                      challenge))])
    /\ ret' = Ret("binding_construct", "Ok", <<>>)
    /\ UNCHANGED <<setupVars, userVars, batchVars, randomized, linked, checked, vkproof,
                   credential, origin, proofVars, issued, showVars>>

\* proof.verify(&public_params) with the public parameters prove was given
BindingVerify ==
    /\ IsSome(binding)
    /\ Unwrap(binding).result.tag = "Ok"
    /\ ret' = Ret("binding_verify",
                  IdentityBindingVerify(Unwrap(Unwrap(binding).result.val),
                                        Unwrap(binding).public_params), <<>>)
    /\ UNCHANGED <<setupVars, userVars, batchVars, fnVars, credential, origin, proofVars,
                   issued, showVars>>

NextBinding ==
    \/ BindingProve
    \/ BindingProveMalformed
    \/ BindingProveUnchecked
    \/ BindingVerify

SpecBinding == InitAggregate /\ [][NextBinding]_vars

\* -------------------------------------------------------- linked credentials

\* The (blindings, challenge) pair of ShowCoins(k) with first blinding b
ShowCoin(k, b) ==
    [blindings |-> [i \in 1 .. k |-> (b + i - 1) % Q], challenge |-> 1 + (b % 2)]

\* The issuers of a multi-issuer system: issuer i has id i - 1 and counts[i]
\* attributes; its rng returns x for the first issuer and x moved by step for
\* each further one, and y values that follow
IssuersOf(counts, x, step) ==
    [i \in 1 .. Len(counts) |->
        IssuerNew(i - 1, counts[i], 1 + ((x - 1 + step * (i - 1)) % 2),
                  [j \in 1 .. counts[i] |-> 1 + ((x + i + j) % 2)])]

\* Outcomes of the two randomizers of a show
ShowDeltas == {[delta_r |-> d, delta_u |-> MaxScalar - d] : d \in Scalars}

\* The credentials a user obtains from issuers, one from each: the first
\* attribute of credential i is ids[i], a second attribute is other
CredentialsFrom(issuers, ids, other, r, b, u) ==
    [i \in 1 .. Len(issuers) |->
        ObtainedCredential(issuers[i],
                           SubSeq(<<ids[i], other>>, 1, issuers[i].protocol.pp.n),
                           (r + i - 1) % Q,
                           ShowCoin(issuers[i].protocol.pp.n + 1, b).blindings,
                           ShowCoin(issuers[i].protocol.pp.n + 1, b).challenge, u)]

\* creds with sigma2 of the signature of credential j moved by one generator
\* (j = 0: none)
WithForged(creds, j) ==
    [i \in 1 .. Len(creds) |->
        IF i = j
        THEN CredentialAddSignature(
                 creds[i],
                 [Unwrap(creds[i].signature) EXCEPT
                      !.sigma2 = FAdd(Unwrap(creds[i].signature).sigma2, 1)])
        ELSE creds[i]]

\* LinkedCredentialPresentation::create(&credentials, &public_params, rng) on
\* credentials obtained from the issuers, with the issuers' public parameters
\* in credential order
CreateLinked ==
    /\ linked = None
    /\ \E k \in 1 .. MaxLinked :
       \E counts \in SeqN(IssuerAttrCounts, k), x \in KeyScalars, step \in {0, 1},
          id \in Scalars, odd \in 0 .. k, r \in Scalars, forged \in 0 .. k :
       \E deltas \in ShowDeltas, challenge \in BindingChallenges :
         LET issuers == IssuersOf(counts, x, step)
             b == IF challenge = 1 THEN 3 ELSE 0
             ids == [i \in 1 .. k |-> UserMessages(k, id, odd, r)[i][1]]
             creds == WithForged(CredentialsFrom(issuers, ids, r, r, b, 1 + (r % 2)),
                                 forged)
             public_params == [i \in 1 .. k |-> issuers[i].protocol.pp]
             show_coins ==
                 [i \in 1 .. k |->
                     [delta_r |-> deltas.delta_r, delta_u |-> deltas.delta_u,
                      blindings |-> ShowCoin(public_params[i].n + 1, b).blindings,
                      challenge |-> ShowCoin(public_params[i].n + 1, b).challenge]]
         IN  linked' =
                 Some([issuers |-> issuers,
                       credentials |-> creds,
                       forged |-> forged,
                       result |-> LinkedCreate(creds, public_params, show_coins, b,
                                               RestBlindings(public_params, b),
                                               challenge)])
    /\ ret' = Ret("linked_create", linked'[1].result.tag, <<>>)
    /\ UNCHANGED <<setupVars, userVars, batchVars, randomized, binding, checked, vkproof,
                   credential, origin, proofVars, issued, showVars>>

\* presentation.verify(&public_params, &verification_keys) with the issuers'
\* public parameters and keys, in credential order or in reverse order
VerifyLinked ==
    /\ IsSome(linked)
    /\ Unwrap(linked).result.tag = "Ok"
    /\ checked = None
    /\ \E order \in {"same", "reversed"} :
         LET issuers == Unwrap(linked).issuers
             k == Len(issuers)
             at(i) == IF order = "same" THEN issuers[i] ELSE issuers[k + 1 - i]
         IN  ret' = Ret("linked_verify",
                        LinkedVerify(Unwrap(Unwrap(linked).result.val),
                                     [i \in 1 .. k |-> at(i).protocol.pp],
                                     [i \in 1 .. k |-> at(i).vk]),
                        <<order>>)
    /\ UNCHANGED <<setupVars, userVars, batchVars, fnVars, credential, origin, proofVars,
                   issued, showVars>>

\* A LinkedCredentialPresentation put together from public fields: the
\* identity_proof of a created presentation with the presentations of another
\* show of the same credentials, the last `dropped` of them left out
AssemblePresentation ==
    /\ IsSome(linked)
    /\ Unwrap(linked).result.tag = "Ok"
    /\ Unwrap(linked).forged = 0
    /\ checked = None
    /\ \E deltas \in ShowDeltas, dropped \in {0, 1} :
         LET creds == Unwrap(linked).credentials
             issuers == Unwrap(linked).issuers
             shown == [i \in 1 .. Len(creds) - dropped |->
                          CredentialShow(creds[i], issuers[i].protocol.pp,
                                         deltas.delta_r, deltas.delta_u,
                                         ShowCoin(issuers[i].protocol.pp.n + 1, 0).blindings,
                                         ShowCoin(issuers[i].protocol.pp.n + 1, 0).challenge)]
         IN  /\ dropped = 1 => deltas.delta_r = 0
             /\ checked' = Some([credential_presentations |-> shown,
                                 identity_proof |->
                                     Unwrap(Unwrap(linked).result.val).identity_proof])
    /\ ret' = Ret("linked_assemble", "unit", <<>>)
    /\ UNCHANGED <<setupVars, userVars, batchVars, randomized, binding, linked, vkproof,
                   credential, origin, proofVars, issued, showVars>>

\* verify(&public_params, &verification_keys) on the assembled presentation,
\* with the issuers' public parameters and keys in credential order
VerifyAssembled ==
    /\ IsSome(linked)
    /\ IsSome(checked)
    /\ LET issuers == Unwrap(linked).issuers
       IN  ret' = Ret("assembled_verify",
                      LinkedVerify(Unwrap(checked),
                                   [i \in 1 .. Len(issuers) |-> issuers[i].protocol.pp],
                                   [i \in 1 .. Len(issuers) |-> issuers[i].vk]),
                      <<>>)
    /\ UNCHANGED <<setupVars, userVars, batchVars, fnVars, credential, origin, proofVars,
                   issued, showVars>>

NextLinked ==
    \/ CreateLinked
    \/ VerifyLinked
    \/ AssemblePresentation
    \/ VerifyAssembled

SpecLinked == InitAggregate /\ [][NextLinked]_vars

\* ------------------------------------------------------------------- claims

\* --- proof of well-formed issuer keys (verkey.rs) ---

\* A prove whose T2_i are computed from the secret exponents instead of the
\* blindings
ProveT2FromSecrets(pp, x, y_values, challenge, x_blinding, blindings) ==
    IF Len(y_values) # pp.n THEN Panicked
    ELSE OkVal([x_schnorr_com_g |-> FMul(pp.g, x_blinding),
                x_schnorr_com_g_tilde |-> FMul(pp.g_tilde, x_blinding),
                x_response |-> FAdd(x_blinding, FMul(challenge, x)),
                t1 |-> [i \in 1 .. Len(y_values) |-> FMul(pp.g, blindings[i])],
                t2 |-> [i \in 1 .. Len(y_values) |-> FMul(pp.g_tilde, y_values[i])],
                responses |-> [i \in 1 .. Len(y_values) |->
                                  FAdd(blindings[i], FMul(challenge, y_values[i]))],
                challenge |-> challenge])

\* VerKeyProof::prove(pp, x, y_values, rng), the rng's outputs being challenge,
\* x_blinding and blindings in the order they are sampled
VerKeyProofProve(pp, x, y_values, challenge, x_blinding, blindings) ==
    IF Len(y_values) # pp.n THEN Panicked
    ELSE OkVal([x_schnorr_com_g |-> FMul(pp.g, x_blinding),
                x_schnorr_com_g_tilde |-> FMul(pp.g_tilde, x_blinding),
                x_response |-> FAdd(x_blinding, FMul(challenge, x)),
                t1 |-> [i \in 1 .. Len(y_values) |-> FMul(pp.g, blindings[i])],
                t2 |-> [i \in 1 .. Len(y_values) |-> FMul(pp.g_tilde, blindings[i])],
                responses |-> [i \in 1 .. Len(y_values) |->
                                  FAdd(blindings[i], FMul(challenge, y_values[i]))],
                challenge |-> challenge])

\* The first i in 1 .. pp.n at which the loop of verify returns false, or 0
VerKeyFirstFailure(proof_, pp) ==
    LET failing == {i \in 1 .. pp.n :
                      \/ FMul(pp.g_tilde, proof_.responses[i])
                           # FAdd(proof_.t2[i], FMul(pp.ck_tilde[i], proof_.challenge))
                      \/ Pairing(proof_.t1[i], pp.g_tilde) # Pairing(pp.g, proof_.t2[i])}
    IN  IF failing = {} THEN 0 ELSE MinOf(failing)

\* VerKeyProof::verify(&self, pp, vk_tilde): "panic" when the assert_eq! on
\* the G2 equation of x fails
VerKeyProofVerify(proof_, pp, vk_tilde) ==
    IF FAdd(FMul(vk_tilde, proof_.challenge), proof_.x_schnorr_com_g_tilde)
           # FMul(pp.g_tilde, proof_.x_response)
    THEN "panic"
    ELSE IF Pairing(pp.g, proof_.x_schnorr_com_g_tilde)
                # Pairing(proof_.x_schnorr_com_g, pp.g_tilde)
    THEN "false"
    ELSE IF \/ Len(proof_.t1) # pp.n
            \/ Len(proof_.t2) # pp.n
            \/ Len(proof_.responses) # pp.n
    THEN "false"
    ELSE IF VerKeyFirstFailure(proof_, pp) # 0 THEN "false"
    ELSE "true"

\* The proofs that differ from proof_ in one component, or in the number of
\* entries of one vector, each with the name of what was changed
TamperedProofs(proof_) ==
    {[component |-> "T_x", proof |-> [proof_ EXCEPT !.x_schnorr_com_g = v]] :
        v \in G1 \ {proof_.x_schnorr_com_g}}
    \cup {[component |-> "T~_x", proof |-> [proof_ EXCEPT !.x_schnorr_com_g_tilde = v]] :
        v \in G2 \ {proof_.x_schnorr_com_g_tilde}}
    \cup {[component |-> "s_x", proof |-> [proof_ EXCEPT !.x_response = v]] :
        v \in F \ {proof_.x_response}}
    \cup {[component |-> "c", proof |-> [proof_ EXCEPT !.challenge = v]] :
        v \in F \ {proof_.challenge}}
    \cup UNION {{[component |-> "T1_i", proof |-> [proof_ EXCEPT !.t1[i] = v]] :
                    v \in G1 \ {proof_.t1[i]}} : i \in 1 .. Len(proof_.t1)}
    \cup UNION {{[component |-> "T2_i", proof |-> [proof_ EXCEPT !.t2[i] = v]] :
                    v \in G2 \ {proof_.t2[i]}} : i \in 1 .. Len(proof_.t2)}
    \cup UNION {{[component |-> "s_i", proof |-> [proof_ EXCEPT !.responses[i] = v]] :
                    v \in F \ {proof_.responses[i]}} : i \in 1 .. Len(proof_.responses)}
    \cup {[component |-> "len(T1)", proof |-> [proof_ EXCEPT !.t1 = DropLast(@)]],
          [component |-> "len(T2)", proof |-> [proof_ EXCEPT !.t2 = DropLast(@)]],
          [component |-> "len(s)", proof |-> [proof_ EXCEPT !.responses = DropLast(@)]],
          [component |-> "len(T1)+", proof |-> [proof_ EXCEPT !.t1 = Append(@, 0)]],
          [component |-> "len(T2)+", proof |-> [proof_ EXCEPT !.t2 = Append(@, 0)]],
          [component |-> "len(s)+", proof |-> [proof_ EXCEPT !.responses = Append(@, 0)]]}

\* VerKey::prove(&pp, &x, &y_values, rng) by the issuer
ProveVerKey ==
    /\ Running
    /\ vkproof = None
    /\ \E challenge \in BindingChallenges, x_blinding \in Blindings :
       \E blindings \in SeqN(Blindings, protocol.pp.n) :
         LET result == VerKeyProofProve(protocol.pp, issuer_sk.x,
                                        protocol.pp.y_values, challenge,
                                        x_blinding, blindings)
         IN  /\ vkproof' = Some([proof |-> Unwrap(result.val),
                                 pp |-> protocol.pp,
                                 changed |-> "none"])
             /\ ret' = Ret("verkey_prove", result.tag, <<>>)
    /\ UNCHANGED <<setupVars, userVars, batchVars, randomized, binding, linked, checked,
                   credential, origin, proofVars, issued, showVars>>

\* The proof reaches the verifier with one component changed
TamperVerKeyProof ==
    /\ Running
    /\ IsSome(vkproof)
    /\ Unwrap(vkproof).changed = "none"
    /\ \E t \in TamperedProofs(Unwrap(vkproof).proof) :
         vkproof' = Some([Unwrap(vkproof) EXCEPT !.proof = t.proof,
                                                 !.changed = t.component])
    /\ ret' = Ret("tamper", "unit", <<>>)
    /\ UNCHANGED <<setupVars, userVars, batchVars, randomized, binding, linked, checked,
                   credential, origin, proofVars, issued, showVars>>

\* The issuer publishes parameters whose G1 base ck[i] is not y_i * g (the
\* fields of PublicParams are public)
PublishOtherBase ==
    /\ Running
    /\ IsSome(vkproof)
    /\ Unwrap(vkproof).changed = "none"
    /\ \E i \in 1 .. protocol.pp.n :
       \E v \in G1 \ {protocol.pp.ck[i]} :
         vkproof' = Some([Unwrap(vkproof) EXCEPT !.pp.ck[i] = v,
                                                 !.changed = "ck_i"])
    /\ ret' = Ret("publish", "unit", <<>>)
    /\ UNCHANGED <<setupVars, userVars, batchVars, randomized, binding, linked, checked,
                   credential, origin, proofVars, issued, showVars>>

\* VerKey::verify(&proof, &pp, &vk_tilde) by a verifier, for the key the
\* issuer published
VerifyVerKey ==
    /\ Running
    /\ IsSome(vkproof)
    /\ \E vk_tilde \in G2 :
         ret' = Ret("verkey_verify",
                    VerKeyProofVerify(Unwrap(vkproof).proof, Unwrap(vkproof).pp,
                                      vk_tilde), <<vk_tilde>>)
    /\ UNCHANGED <<setupVars, userVars, batchVars, fnVars, credential, origin, proofVars,
                   issued, showVars>>

NextVerKey ==
    \/ ProveVerKey
    \/ TamperVerKeyProof
    \/ PublishOtherBase
    \/ VerifyVerKey

SpecVerKey == Init /\ [][NextVerKey]_vars

\* --- public parameters on their own (public_params.rs) ---

\* The state before PublicParams::new(&n, rng): n and the outputs the rng
\* will give for g, g_tilde and the n values y_i are in checked; the other
\* variables are those of one fixed setup
InitParams ==
    /\ Setup
    /\ issuer_sk.x = 1
    /\ protocol.pp.y_values = [i \in 1 .. protocol.pp.n |-> 1 + (i % 2)]
    /\ credential = None
    /\ origin = "none"
    /\ proof = None
    /\ proof_origin = "none"
    /\ issued = NoResult
    /\ presentation = None
    /\ shows = 0
    /\ credentials = <<>>
    /\ origins = <<>>
    /\ aggregate = None
    /\ randomized = None
    /\ binding = None
    /\ linked = None
    /\ vkproof = None
    /\ system = <<>>
    /\ user = None
    /\ \E n \in 0 .. MaxAttrs, g \in G1 \ {0}, g_tilde \in G2 \ {0} :
       \E y_values \in SeqN(F, n) :
         checked = Some([n |-> n, g |-> g, g_tilde |-> g_tilde, rng |-> y_values,
                         pp |-> None, g1_bases |-> None])
    /\ ret = Ret("setup", "unit", <<>>)

\* PublicParams::new(&n, rng)
ParamsNew ==
    /\ Unwrap(checked).pp = None
    /\ checked' = Some([Unwrap(checked) EXCEPT
                            !.pp = Some(PublicParamsNew(Unwrap(checked).n,
                                                        Unwrap(checked).g,
                                                        Unwrap(checked).g_tilde,
                                                        Unwrap(checked).rng))])
    /\ ret' = Ret("params_new", "unit", <<>>)
    /\ UNCHANGED <<setupVars, userVars, batchVars, randomized, binding, linked, vkproof,
                   credential, origin, proofVars, issued, showVars>>

\* pp.get_g1_bases()
ParamsGetG1Bases ==
    /\ IsSome(Unwrap(checked).pp)
    /\ checked' = Some([Unwrap(checked) EXCEPT
                            !.g1_bases = Some(GetG1Bases(Unwrap(Unwrap(checked).pp)))])
    /\ ret' = Ret("get_g1_bases", "unit", <<>>)
    /\ UNCHANGED <<setupVars, userVars, batchVars, randomized, binding, linked, vkproof,
                   credential, origin, proofVars, issued, showVars>>

NextParams ==
    \/ ParamsNew
    \/ ParamsGetG1Bases

SpecParams == InitParams /\ [][NextParams]_vars

\* --- two shows of one credential (credential.rs) ---

\* credential.add_signature(signature) with any signature of G1 x G1, before
\* the shows that are compared
AddAnySignature ==
    /\ Running
    /\ IsSome(credential)
    /\ checked = None
    /\ \E sigma1 \in G1, sigma2 \in G1 :
         credential' = Some(CredentialAddSignature(Unwrap(credential),
                             [sigma1 |-> sigma1, sigma2 |-> sigma2]))
    /\ origin' = "forged"
    /\ presentation' = None
    /\ shows' = 0
    /\ ret' = Ret("add_signature", "unit", <<>>)
    /\ UNCHANGED <<setupVars, userVars, batchVars, fnVars, proofVars, issued>>

\* credential.show(&pp, &delta_r, &delta_u, rng) by a holder who keeps the
\* output of the show before, with the credential and randomizers of each
ShowAndKeep ==
    /\ Running
    /\ IsSome(credential)
    /\ shows < MaxShows
    /\ \E delta_r \in Scalars, delta_u \in Scalars :
         LET coins == ShowCoin(protocol.pp.n + 1, 0)
         IN  IF ShowPanics(Unwrap(credential))
             THEN /\ ret' = Ret("show", "panic", <<delta_r, delta_u>>)
                  /\ UNCHANGED <<showVars, checked>>
             ELSE /\ presentation' = Some(CredentialShow(Unwrap(credential), protocol.pp,
                                              delta_r, delta_u, coins.blindings,
                                              coins.challenge))
                  /\ shows' = shows + 1
                  /\ checked' =
                         Some([previous |-> IF IsSome(checked)
                                            THEN Some(Unwrap(checked).last) ELSE None,
                               last |-> [credential |-> Unwrap(credential),
                                         delta_r |-> delta_r,
                                         delta_u |-> delta_u,
                                         presentation |-> Unwrap(presentation')]])
                  /\ ret' = Ret("show", "Ok", <<delta_r, delta_u>>)
    /\ UNCHANGED <<setupVars, userVars, batchVars, randomized, binding, linked, vkproof,
                   credential, origin, proofVars, issued>>

NextShows ==
    \/ New
    \/ AddAnySignature
    \/ ShowAndKeep

SpecShows == InitAggregate /\ [][NextShows]_vars

\* --- a user of a multi-issuer system (multi_issuer.rs) ---

\* Attribute count setup_issuers falls back to for an empty list
DefaultAttrs == 10

\* The attribute count setup_issuers gives issuer i (from 0)
AttrCountOf(attributes_per_issuer, i) ==
    IF i < Len(attributes_per_issuer) THEN attributes_per_issuer[i + 1]
    ELSE IF attributes_per_issuer = <<>> THEN DefaultAttrs
    ELSE attributes_per_issuer[Len(attributes_per_issuer)]

\* MultiIssuerSystem::setup_issuers on an empty system, x and step being
\* what the rng gives the issuers' keys
SystemSetupIssuers(issuer_count, attributes_per_issuer, x, step) ==
    IssuersOf([i \in 1 .. issuer_count |-> AttrCountOf(attributes_per_issuer, i - 1)],
              x, step)

\* MultiIssuerSystem::get_issuer
GetIssuer(sys, issuer_id) ==
    IF issuer_id + 1 \in 1 .. Len(sys) THEN Some(sys[issuer_id + 1]) ELSE None

\* HashMap::new and HashMap::insert on user.credentials
EmptyMap == [key \in {} |-> None]
MapInsert(map, key, value) ==
    [k \in DOMAIN map \cup {key} |-> IF k = key THEN value ELSE map[k]]

\* User::new
UserNew(id) == [id |-> id, credentials |-> EmptyMap]

\* An obtain_credential that does not compare the attribute count with n
ObtainUncheckedCount(usr, issuer_id, credential_id, sys, attributes, r, coins, u) ==
    IF GetIssuer(sys, issuer_id) = None
    THEN [user |-> usr, result |-> "Err(Other(Issuer not found))"]
    ELSE LET issuer == Unwrap(GetIssuer(sys, issuer_id))
             all_attributes == <<usr.id>> \o attributes
             credential_ == CredentialNew(issuer.protocol.ck, issuer.protocol.pp,
                                          all_attributes, r)
             proof_ == CredentialProveCommitment(credential_, issuer.protocol.pp,
                                                 coins.blindings, coins.challenge)
             signature == MimcAbcIssue(issuer.protocol, proof_, issuer.sk, u)
         IN  IF signature.tag = "Err"
             THEN [user |-> usr, result |-> "Err(InvalidProof)"]
             ELSE [user |-> [usr EXCEPT !.credentials =
                                MapInsert(@, <<issuer_id, credential_id>>,
                                          CredentialAddSignature(credential_,
                                                                 Unwrap(signature.sig)))],
                   result |-> "Ok"]

\* User::obtain_credential(issuer_id, credential_id, &system, attributes, rng):
\* the user afterwards and the Result
UserObtainCredential(usr, issuer_id, credential_id, sys, attributes, r, coins, u) ==
    IF GetIssuer(sys, issuer_id) = None
    THEN [user |-> usr, result |-> "Err(Other(Issuer not found))"]
    ELSE LET issuer == Unwrap(GetIssuer(sys, issuer_id))
             all_attributes == <<usr.id>> \o attributes
             credential_ == CredentialNew(issuer.protocol.ck, issuer.protocol.pp,
                                          all_attributes, r)
             proof_ == CredentialProveCommitment(credential_, issuer.protocol.pp,
                                                 coins.blindings, coins.challenge)
             signature == MimcAbcIssue(issuer.protocol, proof_, issuer.sk, u)
         IN  IF Len(all_attributes) # issuer.protocol.pp.n
             THEN [user |-> usr, result |-> "Err(Other(Attribute count mismatch))"]
             ELSE IF signature.tag = "Err"
             THEN [user |-> usr, result |-> "Err(InvalidProof)"]
             ELSE [user |-> [usr EXCEPT !.credentials =
                                MapInsert(@, <<issuer_id, credential_id>>,
                                          CredentialAddSignature(credential_,
                                                                 Unwrap(signature.sig)))],
                   result |-> "Ok"]

\* The first position of credential_keys at which show_credentials returns an
\* error, or 0
ShowCredentialsFirstError(usr, credential_keys, sys) ==
    LET failing == {i \in 1 .. Len(credential_keys) :
                      \/ credential_keys[i] \notin DOMAIN usr.credentials
                      \/ GetIssuer(sys, credential_keys[i][1]) = None}
    IN  IF failing = {} THEN 0 ELSE MinOf(failing)

\* User::show_credentials(&credential_keys, &system, rng)
UserShowCredentials(usr, credential_keys, sys, deltas) ==
    LET bad == ShowCredentialsFirstError(usr, credential_keys, sys)
    IN  IF bad # 0
        THEN IF credential_keys[bad] \notin DOMAIN usr.credentials
             THEN ErrOther("Credential not found")
             ELSE ErrOther("Issuer not found")
        ELSE OkVal([i \in 1 .. Len(credential_keys) |->
                       LET pp == Unwrap(GetIssuer(sys, credential_keys[i][1])).protocol.pp
                       IN  CredentialShow(usr.credentials[credential_keys[i]], pp,
                                          deltas.delta_r, deltas.delta_u,
                                          ShowCoin(pp.n + 1, 0).blindings,
                                          ShowCoin(pp.n + 1, 0).challenge)])

\* system.setup_issuers(issuer_count, &attributes_per_issuer, rng) on the
\* new system
SetupIssuers ==
    /\ system = <<>>
    /\ \E issuer_count \in 1 .. MaxLinked, given \in {0, 1}, step \in {0, 1} :
         LET attributes_per_issuer == [i \in 1 .. issuer_count - given |->
                                          1 + ((i + step) % 2)]
         IN  system' = SystemSetupIssuers(issuer_count, attributes_per_issuer, 1, step)
    /\ ret' = Ret("setup_issuers", "unit", <<>>)
    /\ UNCHANGED <<setupVars, batchVars, fnVars, user, credential, origin, proofVars,
                   issued, showVars>>

\* User::new(rng)
NewUser ==
    /\ user = None
    /\ \E id \in Scalars : user' = Some(UserNew(id))
    /\ ret' = Ret("user_new", "unit", <<>>)
    /\ UNCHANGED <<setupVars, batchVars, fnVars, system, credential, origin, proofVars,
                   issued, showVars>>

\* user.obtain_credential(issuer_id, credential_id, &system, attributes, rng)
ObtainCredential ==
    /\ IsSome(user)
    /\ checked = None
    /\ \E issuer_id \in 0 .. MaxLinked, count \in 0 .. 2, r \in Scalars :
         LET attributes == [j \in 1 .. count |-> r]
             n == IF GetIssuer(system, issuer_id) = None THEN 0
                  ELSE Unwrap(GetIssuer(system, issuer_id)).protocol.pp.n
             out == UserObtainCredential(Unwrap(user), issuer_id, 0, system,
                                         attributes, r, ShowCoin(n + 1, r),
                                         1 + (r % 2))
         IN  /\ user' = Some(out.user)
             /\ ret' = Ret("obtain_credential", out.result,
                           <<issuer_id, 0, attributes>>)
    /\ UNCHANGED <<setupVars, batchVars, fnVars, system, credential, origin, proofVars,
                   issued, showVars>>

\* user.show_credentials(&credential_keys, &system, rng)
ShowCredentials ==
    /\ IsSome(user)
    /\ checked = None
    /\ \E k \in 1 .. MaxLinked, first \in 0 .. MaxLinked, deltas \in ShowDeltas :
         LET credential_keys == [i \in 1 .. k |-> <<(first + i - 1) % (MaxLinked + 1), 0>>]
             result == UserShowCredentials(Unwrap(user), credential_keys, system, deltas)
         IN  /\ checked' = Some([credential_keys |-> credential_keys,
                                 result |-> result])
             /\ ret' = Ret("show_credentials", result.tag, <<>>)
    /\ UNCHANGED <<setupVars, userVars, batchVars, randomized, binding, linked, vkproof,
                   credential, origin, proofVars, issued, showVars>>

NextUser ==
    \/ SetupIssuers
    \/ NewUser
    \/ ObtainCredential
    \/ ShowCredentials

SpecUser == InitAggregate /\ [][NextUser]_vars

\* --- one signature verified against several commitments (signature.rs) ---

\* issuer_sk.sign(&commitment, &pp, rng) on a commitment of the commitment key
SignCommitment ==
    /\ checked = None
    /\ \E messages \in SeqN(Scalars, protocol.pp.n), u \in KeyScalars :
         LET commitment == Commit(protocol.ck, protocol.pp, messages, messages[1])
         IN  checked' = Some([signature |-> Sign(issuer_sk, commitment, protocol.pp, u),
                              commitment |-> commitment,
                              origin |-> "sign",
                              verified |-> <<>>])
    /\ ret' = Ret("sign", "unit", <<>>)
    /\ UNCHANGED <<setupVars, userVars, batchVars, randomized, binding, linked, vkproof,
                   credential, origin, proofVars, issued, showVars>>

\* signature.randomize(&delta_r, &delta_u) and commitment.randomize(&pp,
\* &delta_r) on the signed pair, for any two scalars
RandomizeSigned ==
    /\ IsSome(checked)
    /\ Unwrap(checked).origin = "sign"
    /\ Unwrap(checked).verified = <<>>
    /\ \E delta_r \in Scalars, delta_u \in F :
         checked' = Some([signature |-> SignatureRandomize(Unwrap(checked).signature,
                                                           delta_r, delta_u),
                          commitment |-> CommitmentRandomize(Unwrap(checked).commitment,
                                                             protocol.pp, delta_r),
                          origin |-> "randomize",
                          verified |-> <<>>])
    /\ ret' = Ret("randomize", "unit", <<>>)
    /\ UNCHANGED <<setupVars, userVars, batchVars, randomized, binding, linked, vkproof,
                   credential, origin, proofVars, issued, showVars>>

\* The commitments a verifier is handed: the one that goes with the
\* signature, and commitments of the commitment key to any messages
VerifierCommitments ==
    {Unwrap(checked).commitment}
    \cup {Commit(protocol.ck, protocol.pp, messages, r) :
             messages \in SeqN(Scalars, protocol.pp.n), r \in Scalars}

\* issuer_vk.verify(&signature, &commitment, &pp) on the signature at hand
VerifySignature ==
    /\ IsSome(checked)
    /\ Len(Unwrap(checked).verified) < 2
    /\ \E commitment \in VerifierCommitments :
         LET result == VkVerify(issuer_vk, Unwrap(checked).signature, commitment,
                                protocol.pp)
         IN  /\ checked' = Some([Unwrap(checked) EXCEPT !.verified =
                                    Append(@, [commitment |-> commitment,
                                               accepted |-> result = "true"])])
             /\ ret' = Ret("vk_verify", result, <<>>)
    /\ UNCHANGED <<setupVars, userVars, batchVars, randomized, binding, linked, vkproof,
                   credential, origin, proofVars, issued, showVars>>

\* issuer_vk.verify_with_pairing_checker(&signature, &commitment, &pp) on the
\* signature at hand
VerifySignatureWithChecker ==
    /\ IsSome(checked)
    /\ Len(Unwrap(checked).verified) < 2
    /\ \E commitment \in VerifierCommitments :
         LET result == VerifyWithPairingChecker(issuer_vk, Unwrap(checked).signature,
                                                commitment, protocol.pp)
         IN  /\ checked' = Some([Unwrap(checked) EXCEPT !.verified =
                                    Append(@, [commitment |-> commitment,
                                               accepted |-> result])])
             /\ ret' = Ret("vk_verify_with_pairing_checker",
                           IF result THEN "true" ELSE "false", <<>>)
    /\ UNCHANGED <<setupVars, userVars, batchVars, randomized, binding, linked, vkproof,
                   credential, origin, proofVars, issued, showVars>>

NextSignature ==
    \/ SignCommitment
    \/ RandomizeSigned
    \/ VerifySignature
    \/ VerifySignatureWithChecker

SpecSignature == Init /\ [][NextSignature]_vars

\* --- the two signature verifications on arbitrary inputs (signature.rs) ---

\* Any signature of G1 x G1 and any commitment of G1 x G2; the two calls are
\* made on the same inputs
CheckedInputs ==
    {[signature |-> [sigma1 |-> s1, sigma2 |-> s2],
      commitment |-> [cm |-> cm, cm_tilde |-> cm_tilde]] :
        s1 \in G1, s2 \in G1, cm \in G1, cm_tilde \in G2}

\* vk.verify(&signature, &commitment, &pp)
CallVerify ==
    /\ Running
    /\ \E inputs \in (IF checked = None THEN CheckedInputs ELSE {Unwrap(checked)}) :
         /\ checked' = Some(inputs)
         /\ ret' = Ret("vk_verify",
                       VkVerify(issuer_vk, inputs.signature, inputs.commitment,
                                protocol.pp), <<>>)
    /\ UNCHANGED <<setupVars, userVars, batchVars, randomized, binding, linked, vkproof,
                   credential, origin, proofVars, issued, showVars>>

\* vk.verify_with_pairing_checker(&signature, &commitment, &pp)
CallVerifyWithPairingChecker ==
    /\ Running
    /\ \E inputs \in (IF checked = None THEN CheckedInputs ELSE {Unwrap(checked)}) :
         /\ checked' = Some(inputs)
         /\ ret' = Ret("verify_with_pairing_checker",
                       BoolStr(VerifyWithPairingChecker(issuer_vk, inputs.signature,
                                                        inputs.commitment,
                                                        protocol.pp)), <<>>)
    /\ UNCHANGED <<setupVars, userVars, batchVars, randomized, binding, linked, vkproof,
                   credential, origin, proofVars, issued, showVars>>

NextChecker ==
    \/ CallVerify
    \/ CallVerifyWithPairingChecker

SpecChecker == Init /\ [][NextChecker]_vars


\* e(sigma2, g~) = e(sigma1, vk~ + cm~)
SignatureEquation(vk, signature, commitment, pp) ==
    (signature.sigma2 * pp.g_tilde) % Q
        = (signature.sigma1 * ((vk.vk_tilde + commitment.cm_tilde) % Q)) % Q

\* e(cm, g~) = e(g, cm~)
CommitmentEquation(commitment, pp) ==
    (commitment.cm * pp.g_tilde) % Q = (pp.g * commitment.cm_tilde) % Q

\* sum s_i * bases_i = T + c * cm for the proof p over the given bases
SchnorrEquation(p, bases) ==
    LET Term(i) == (p.responses[i] * bases[i]) % Q
        lhs == IF Len(bases) = 2 THEN (Term(1) + Term(2)) % Q
               ELSE (Term(1) + Term(2) + Term(3)) % Q
    IN  /\ Len(p.responses) = Len(bases)
        /\ lhs = (p.schnorr_commitment + p.challenge * p.commitment.cm) % Q

\* C1 -- Issuance correctness: the proof that prove_commitment returns for a
\* credential satisfies the Schnorr equation over the issuer's bases, issue
\* returns Ok(sigma) for it, sigma satisfies the signature equation for the
\* credential's commitment, and after add_signature(sigma) Credential::verify
\* returns true.
C1_IssuanceCorrect ==
    /\ proof_origin = "obtain" =>
         /\ Unwrap(proof).commitment = Unwrap(credential).commitment
         /\ SchnorrEquation(Unwrap(proof), GetG1Bases(protocol.pp))
    /\ (proof_origin = "obtain" /\ issued.tag # "none") =>
         /\ issued.tag = "Ok"
         /\ SignatureEquation(issuer_vk, Unwrap(issued.sig),
                              Unwrap(credential).commitment, protocol.pp)
    /\ (proof_origin = "obtain" /\ origin = "issued" /\ ret.op = "verify") =>
         ret.val = "true"

C1_Witness ==
    /\ proof_origin = "obtain"
    /\ origin = "issued"
    /\ ret.op = "verify"
    /\ ret.val = "true"

\* C6 -- issue returns Err(InvalidProof) and no signature when the proof's
\* Schnorr equation fails, and Ok(sign(proof.commitment)) when it holds.
C6_IssueChecksProof ==
    issued.tag # "none" =>
        LET p == Unwrap(proof) IN
        IF SchnorrEquation(p, p.bases)
        THEN /\ issued.tag = "Ok"
             /\ \E u \in KeyScalars :
                  Unwrap(issued.sig) =
                      [sigma1 |-> (u * protocol.pp.g) % Q,
                       sigma2 |-> (u * (p.commitment.cm + issuer_sk.sk)) % Q]
        ELSE /\ issued.tag = "Err"
             /\ issued.err = "InvalidProof"
             /\ issued.sig = None

C6_Witness ==
    /\ proof_origin = "tampered"
    /\ issued.tag = "Err"
    /\ ret.op = "issue"

\* C2 -- for a credential whose stored signature was produced by sign on its
\* own commitment, show(pp, delta_r, delta_u) returns a ShowCredential with
\* r_new = r + delta_r, randomized_commitment = commit(messages, r + delta_r)
\* and proof.commitment = randomized_commitment, and ShowCredential::verify
\* returns true for it.
C2_ShowCorrect ==
    /\ (ret.op = "show" /\ origin = "issued") =>
         LET c == Unwrap(credential)
             r_new == (c.r + ret.args[1]) % Q
         IN  /\ ret.val = "Ok"
             /\ IsSome(presentation)
             /\ Unwrap(presentation).r_new = r_new
             /\ Unwrap(presentation).randomized_commitment
                  = Commit(protocol.ck, protocol.pp, c.messages, r_new)
             /\ Unwrap(presentation).proof.commitment
                  = Unwrap(presentation).randomized_commitment
    /\ (ret.op = "verify_show" /\ origin = "issued") => ret.val = "true"

C2_Witness ==
    /\ ret.op = "verify_show"
    /\ origin = "issued"
    /\ ret.val = "true"
    /\ Unwrap(presentation).randomized_commitment # Unwrap(credential).commitment

\* C5 -- VerificationKey::verify returns true exactly when both pairing
\* equations hold and returns false, without panicking, when either fails; so
\* ShowCredential::verify returns a boolean for every presentation: true when
\* the proof and both equations hold, false otherwise.
C5_VerifyReturnsBoolean ==
    ret.op = "verify_show" =>
        LET p == Unwrap(presentation) IN
        ret.val = BoolStr(/\ SchnorrEquation(p.proof, p.proof.bases)
                          /\ SignatureEquation(issuer_vk, p.randomized_signature,
                                               p.randomized_commitment, protocol.pp)
                          /\ CommitmentEquation(p.randomized_commitment, protocol.pp))

\* C7 -- show on a credential that is not Signed fails with an invalid-state
\* error and produces no ShowCredential.
C7_ShowUnsignedIsError ==
    (ret.op = "show" /\ Unwrap(credential).state # "Signed") =>
        /\ ret.val = "Err(InvalidCredentialState)"
        /\ presentation = None

C10_ShowLeavesCredential ==
    [][ret'.op = "show" =>
          /\ credential' = credential
          /\ Unwrap(credential).state = "Signed" =>
               (ret'.val = "Ok" /\ IsSome(presentation'))]_vars

C10_Witness ==
    /\ ret.op = "show"
    /\ ret.val = "Ok"
    /\ shows = MaxShows
    /\ Unwrap(credential).state = "Signed"

\* C3 -- Randomization soundness: if sigma verifies against the commitment cm
\* under vk (both pairing equations hold), then for every pair of scalars
\* (delta_r, delta_u) the signature sigma.randomize(delta_r, delta_u) verifies
\* against cm.randomize(pp, delta_r) under the same vk, by VerificationKey::verify
\* and by verify_with_pairing_checker.
C3_RandomizationSound ==
    IsSome(randomized) =>
        LET c == Unwrap(randomized) IN
        (/\ SignatureEquation(issuer_vk, c.signature, c.commitment, protocol.pp)
         /\ CommitmentEquation(c.commitment, protocol.pp)) =>
            /\ VkVerify(issuer_vk, c.randomized_signature, c.randomized_commitment,
                        protocol.pp) = "true"
            /\ VerifyWithPairingChecker(issuer_vk, c.randomized_signature,
                                        c.randomized_commitment, protocol.pp)

C3_Witness ==
    /\ IsSome(randomized)
    /\ SignatureEquation(issuer_vk, Unwrap(randomized).signature,
                         Unwrap(randomized).commitment, protocol.pp)
    /\ Unwrap(randomized).signature.sigma1 # 0
    /\ Unwrap(randomized).delta_r # 0
    /\ Unwrap(randomized).delta_u > 1
    /\ Unwrap(randomized).randomized_signature # Unwrap(randomized).signature
    /\ Unwrap(randomized).randomized_commitment # Unwrap(randomized).commitment
    /\ VkVerify(issuer_vk, Unwrap(randomized).randomized_signature,
                Unwrap(randomized).randomized_commitment, protocol.pp) = "true"

\* C4 -- Forged signature: after a valid issuance, with sigma2 of the signature
\* replaced by any different G1 element, Credential::verify of that credential
\* returns false, and AggregatePresentation::batch_verify returns false for
\* every batch that contains the altered signature.
C4_ForgedRejected ==
    /\ (ret.op = "verify" /\ origin = "forged") => ret.val = "false"
    /\ (ret.op = "batch_verify" /\ \E i \in 1 .. Len(origins) : origins[i] = "forged")
           => ret.val = "false"

\* The first attributes of the message vectors ms are not all equal
IdentifiersDiffer(ms) == \E i \in 1 .. Len(ms) : ms[i][1] # ms[1][1]

C12_BindingComplete ==
    (IsSome(binding) /\ Unwrap(binding).prechecked) =>
        LET b == Unwrap(binding)
            k == Len(b.commitments)
        IN  /\ (/\ k >= 1
                /\ Len(b.messages) = k /\ Len(b.randomness) = k
                /\ Len(b.public_params) = k
                /\ \A i \in 1 .. k :
                     /\ Len(b.messages[i]) = b.public_params[i].n
                     /\ b.messages[i][1] = b.messages[1][1]) =>
                   /\ b.result.tag = "Ok"
                   /\ Unwrap(b.result.val).commitments = b.commitments
                   /\ ret.op = "binding_verify" => ret.val = "Ok(true)"
            /\ ret.op = "binding_verify" => ret.val = "Ok(true)"

C12_Witness ==
    /\ ret.op = "binding_verify"
    /\ Unwrap(binding).prechecked
    /\ Len(Unwrap(binding).commitments) = MaxLinked
    /\ Unwrap(binding).public_params[1].n # Unwrap(binding).public_params[2].n
    /\ Unwrap(binding).commitments[1] # Unwrap(binding).commitments[2]
    /\ Unwrap(Unwrap(binding).result.val).challenge # 0
    /\ ret.val = "Ok(true)"

\* C14 -- prove returns an error and no proof when the commitment list is
\* empty or the four lists do not all have the same length ("Mismatched input
\* lengths"), else when a message vector is empty ("Messages must have at
\* least one element"), else when the identifiers differ: the length check
\* comes before the empty-message check, which comes before the identifier
\* check.
C14_ProveChecksInOrder ==
    (IsSome(binding) /\ Unwrap(binding).prechecked) =>
        LET b == Unwrap(binding)
            k == Len(b.commitments)
        IN  IF k = 0 \/ Len(b.messages) # k \/ Len(b.randomness) # k
               \/ Len(b.public_params) # k
            THEN b.result = [tag |-> "Err", val |-> <<>>,
                             err |-> "Mismatched input lengths"]
            ELSE IF \E i \in 1 .. k : Len(b.messages[i]) = 0
            THEN b.result = [tag |-> "Err", val |-> <<>>,
                             err |-> "Messages must have at least one element"]
            ELSE IF \E i \in 1 .. k : b.messages[i][1] # b.messages[1][1]
            THEN b.result = [tag |-> "Err", val |-> <<>>,
                             err |-> "User identifiers must be identical"]
            ELSE b.result.tag = "Ok"

C14_Witness ==
    /\ IsSome(binding)
    /\ Unwrap(binding).prechecked
    /\ Len(Unwrap(binding).commitments) = 2
    /\ Len(Unwrap(binding).messages) = 2
    /\ Len(Unwrap(binding).randomness) = 1
    /\ Unwrap(binding).messages[2] = <<>>
    /\ Unwrap(binding).result.err = "Mismatched input lengths"

\* The public parameters and keys verify is given after a create, in the
\* order named by the last call
LinkedParams ==
    LET issuers == Unwrap(linked).issuers
        k == Len(issuers)
    IN  [i \in 1 .. k |->
            IF ret.args = <<"same">> THEN issuers[i].protocol.pp
            ELSE issuers[k + 1 - i].protocol.pp]
LinkedKeys ==
    LET issuers == Unwrap(linked).issuers
        k == Len(issuers)
    IN  [i \in 1 .. k |->
            IF ret.args = <<"same">> THEN issuers[i].vk ELSE issuers[k + 1 - i].vk]

\* C13 -- when the credentials passed to create are all Signed but do not all
\* have the same first attribute, create returns
\* Err(Other("User identifiers must be identical")) and no presentation, and
\* IdentityBinding::prove returns that same error for their message vectors.
C13_DifferentIdentifiersRefused ==
    (/\ IsSome(linked)
     /\ \A i \in 1 .. Len(Unwrap(linked).credentials) :
          Unwrap(linked).credentials[i].state = "Signed"
     /\ \E i \in 1 .. Len(Unwrap(linked).credentials) :
          Unwrap(linked).credentials[i].messages[1]
              # Unwrap(linked).credentials[1].messages[1]) =>
        LET l == Unwrap(linked)
            k == Len(l.credentials)
            pps == [i \in 1 .. k |-> l.issuers[i].protocol.pp]
        IN  /\ l.result = [tag |-> "Err", val |-> <<>>,
                           err |-> "User identifiers must be identical"]
            /\ IdentityBindingProve([i \in 1 .. k |-> l.credentials[i].commitment],
                                    [i \in 1 .. k |-> l.credentials[i].messages],
                                    [i \in 1 .. k |-> l.credentials[i].r],
                                    pps, 0, RestBlindings(pps, 0), 1)
                   = [tag |-> "Err", val |-> <<>>,
                      err |-> "User identifiers must be identical"]

C13_Witness ==
    /\ IsSome(linked)
    /\ Len(Unwrap(linked).credentials) = 2
    /\ Unwrap(linked).forged = 0
    /\ Unwrap(linked).credentials[1].state = "Signed"
    /\ Unwrap(linked).credentials[2].state = "Signed"
    /\ Unwrap(linked).credentials[1].messages[1]
           # Unwrap(linked).credentials[2].messages[1]
    /\ Unwrap(linked).issuers[1].protocol.pp # Unwrap(linked).issuers[2].protocol.pp
    /\ Unwrap(linked).result.err = "User identifiers must be identical"

\* C15 -- for credentials validly issued by different issuers (possibly with
\* different attribute counts) to the same user identifier, create with the
\* issuers' public parameters in credential order returns Ok, and verify with
\* the matching public parameters and verification keys in the same order
\* returns Ok(true).
C15_LinkedPresentationVerifies ==
    (/\ IsSome(linked)
     /\ Unwrap(linked).forged = 0
     /\ \A i \in 1 .. Len(Unwrap(linked).credentials) :
          Unwrap(linked).credentials[i].messages[1]
              = Unwrap(linked).credentials[1].messages[1]) =>
        /\ Unwrap(linked).result.tag = "Ok"
        /\ Len(Unwrap(Unwrap(linked).result.val).credential_presentations)
               = Len(Unwrap(linked).credentials)
        /\ (ret.op = "linked_verify" /\ ret.args = <<"same">>) => ret.val = "Ok(true)"

C15_Witness ==
    /\ ret.op = "linked_verify"
    /\ ret.args = <<"same">>
    /\ Unwrap(linked).forged = 0
    /\ Len(Unwrap(linked).issuers) = 2
    /\ Unwrap(linked).issuers[1].protocol.pp.n # Unwrap(linked).issuers[2].protocol.pp.n
    /\ Unwrap(linked).issuers[1].vk # Unwrap(linked).issuers[2].vk
    /\ ret.val = "Ok(true)"

\* C16 -- verify(pp_list, vk_list) returns Ok(true) if and only if the
\* identity binding proof verifies and ShowCredential::verify accepts every
\* credential presentation with the public parameters and key at its
\* position; in every other case it returns a non-accepting result
\* (Ok(false) or an error).
C16_LinkedVerifyIsConjunction ==
    ret.op = "linked_verify" =>
        LET lp == Unwrap(Unwrap(linked).result.val)
            accepted ==
                /\ IdentityBindingVerify(lp.identity_proof, LinkedParams) = "Ok(true)"
                /\ \A i \in 1 .. Len(lp.credential_presentations) :
                     ShowCredentialVerify(lp.credential_presentations[i],
                                          LinkedParams[i], LinkedKeys[i]) = "true"
        IN  IF accepted THEN ret.val = "Ok(true)"
            ELSE ret.val \in {"Ok(false)", "Err(Mismatched proof component lengths)"}

\* C17 -- for every AggregatePresentation (altered signatures included) and
\* the pp and vk of its issuer, verify_all and batch_verify return the same
\* boolean: both true or both false.
C17_AggregateEquivalence ==
    /\ ret.op = "verify_all" =>
           /\ ret.val \in {"true", "false"}
           /\ ret.val = BoolStr(AggregateBatchVerify(Unwrap(aggregate), protocol.pp,
                                                     issuer_vk))
    /\ ret.op = "batch_verify" =>
           ret.val = AggregateVerifyAll(Unwrap(aggregate), protocol.pp, issuer_vk)

\* C18 -- verify_with_pairing_checker returns the same boolean as verify for
\* every signature, commitment, pp and vk, and neither call panics.
C18_PairingCheckerEquivalent ==
    /\ ret.op = "vk_verify" =>
           /\ ret.val \in {"true", "false"}
           /\ ret.val = BoolStr(VerifyWithPairingChecker(issuer_vk,
                                    Unwrap(checked).signature,
                                    Unwrap(checked).commitment, protocol.pp))
    /\ ret.op = "verify_with_pairing_checker" =>
           ret.val = VkVerify(issuer_vk, Unwrap(checked).signature,
                              Unwrap(checked).commitment, protocol.pp)

\* C19 -- if VerKeyProof::verify(pp, vk~) accepts, then vk~ = x * g~ for the
\* exponent x the prover holds and, for every i in 1..n, the published bases
\* pp.ck[i] and pp.ck_tilde[i] have the same discrete logarithm y_i with
\* respect to g and g~.
C19_VerKeySound ==
    (ret.op = "verkey_verify" /\ ret.val = "true") =>
        LET pp == Unwrap(vkproof).pp
        IN  /\ ret.args[1] = FMul(pp.g_tilde, issuer_sk.x)
            /\ \A i \in 1 .. pp.n :
                 \E y \in F : /\ pp.ck[i] = FMul(pp.g, y)
                              /\ pp.ck_tilde[i] = FMul(pp.g_tilde, y)

\* C20 -- starting from an honest VerKeyProof, changing one component (T_x,
\* T~_x, one T1_i, one T2_i, s_x, one s_i or the challenge c) to a different
\* value, or changing the number of T1, T2 or response entries, makes
\* VerKeyProof::verify return false.
C20_TamperedVerKeyRejected ==
    (/\ ret.op = "verkey_verify"
     /\ ret.args[1] = issuer_vk.vk_tilde
     /\ Unwrap(vkproof).changed \notin {"none", "ck_i"}) => ret.val = "false"

\* C21 -- for keys from generate_keys(pp) and the y values of that pp, the
\* proof from prove_key_correctness(sk) is accepted by
\* verify_key_correctness(proof, vk), for every sampled challenge and blinding.
C21_KeyProofComplete ==
    (/\ ret.op = "verkey_verify"
     /\ Unwrap(vkproof).changed = "none"
     /\ Unwrap(vkproof).pp = protocol.pp
     /\ ret.args[1] = issuer_vk.vk_tilde) => ret.val = "true"

C21_Witness ==
    /\ ret.op = "verkey_verify"
    /\ Unwrap(vkproof).changed = "none"
    /\ ret.args[1] = issuer_vk.vk_tilde
    /\ issuer_vk.vk_tilde = FMul(protocol.pp.g_tilde, issuer_sk.x)
    /\ Unwrap(vkproof).proof.challenge = 2
    /\ Unwrap(vkproof).proof.t1 # <<0, 0>>
    /\ protocol.pp.y_values[1] # protocol.pp.y_values[2]
    /\ ret.val = "true"

\* C22 -- starting from an honest proof made by CommitmentProof::prove,
\* replacing one response by a different scalar, or the challenge by a
\* different scalar, makes CommitmentProof::verify return false.
C22_TamperedProofRejected ==
    (ret.op = "tamper" /\ ret.args[1] \in {"responses", "challenge"}) =>
        ~CommitmentProofVerify(Unwrap(proof))

\* C22 (amended) -- a changed response is always rejected, and a changed
\* challenge is rejected whenever the commitment is not the identity of G1.
C22_TamperedProofRejectedNonzero ==
    /\ (ret.op = "tamper" /\ ret.args[1] = "responses") =>
           ~CommitmentProofVerify(Unwrap(proof))
    /\ (ret.op = "tamper" /\ ret.args[1] = "challenge"
        /\ Unwrap(proof).commitment.cm # 0) =>
           ~CommitmentProofVerify(Unwrap(proof))

C22_Witness ==
    /\ ret.op = "tamper"
    /\ ret.args[1] = "challenge"
    /\ Unwrap(proof).commitment.cm # 0
    /\ Unwrap(proof).commitment = Unwrap(credential).commitment
    /\ ~CommitmentProofVerify(Unwrap(proof))

\* C23 -- for every pp from PublicParams::new, every message vector and every
\* r, the commitment (cm, cm~) returned by CommitmentKey::commit satisfies
\* e(cm, g~) = e(g, cm~); Commitment::randomize(pp, delta) preserves this for
\* every delta, and commit(m, r).randomize(pp, delta) = commit(m, r + delta).
C23_CommitmentConsistent ==
    IsSome(randomized) =>
        LET rz == Unwrap(randomized)
        IN  /\ rz.commitment = Commit(protocol.ck, protocol.pp, rz.messages, rz.r)
            /\ Pairing(rz.commitment.cm, protocol.pp.g_tilde)
                   = Pairing(protocol.pp.g, rz.commitment.cm_tilde)
            /\ Pairing(rz.randomized_commitment.cm, protocol.pp.g_tilde)
                   = Pairing(protocol.pp.g, rz.randomized_commitment.cm_tilde)
            /\ rz.randomized_commitment
                   = Commit(protocol.ck, protocol.pp, rz.messages,
                            FAdd(rz.r, rz.delta_r))

C23_Witness ==
    /\ IsSome(randomized)
    /\ Unwrap(randomized).messages = <<1, 1>>
    /\ Unwrap(randomized).r = 1
    /\ Unwrap(randomized).delta_r = 4
    /\ protocol.pp.y_values = <<1, 2>>
    /\ Unwrap(randomized).commitment.cm = 4
    /\ Unwrap(randomized).randomized_commitment = [cm |-> 3, cm_tilde |-> 3]

\* C24 -- for every n, PublicParams::new(n) yields ck, ck_tilde and y of
\* length exactly n with ck[i] = y_i * g and ck_tilde[i] = y_i * g~, and
\* get_g1_bases returns n + 1 elements in the order ck_1, ..., ck_n, g.
C24_PublicParamsShape ==
    /\ IsSome(Unwrap(checked).pp) =>
           LET in == Unwrap(checked)
               pp == Unwrap(in.pp)
           IN  /\ pp.n = in.n
               /\ Len(pp.ck) = in.n
               /\ Len(pp.ck_tilde) = in.n
               /\ Len(pp.y_values) = in.n
               /\ \A i \in 1 .. in.n :
                    /\ pp.ck[i] = FMul(pp.y_values[i], pp.g)
                    /\ pp.ck_tilde[i] = FMul(pp.y_values[i], pp.g_tilde)
    /\ IsSome(Unwrap(checked).g1_bases) =>
           LET in == Unwrap(checked)
               pp == Unwrap(in.pp)
               bases == Unwrap(in.g1_bases)
           IN  /\ Len(bases) = in.n + 1
               /\ \A i \in 1 .. in.n : bases[i] = pp.ck[i]
               /\ bases[in.n + 1] = pp.g

C24_Witness ==
    /\ IsSome(Unwrap(checked).g1_bases)
    /\ Unwrap(checked).n = 2
    /\ Unwrap(checked).g = 2
    /\ Unwrap(checked).g_tilde = 3
    /\ Unwrap(checked).rng = <<2, 4>>
    /\ Unwrap(Unwrap(checked).pp).ck_tilde = <<1, 2>>
    /\ Unwrap(Unwrap(checked).g1_bases) = <<4, 3, 2>>

\* Two kept shows of one credential whose delta_r differ and whose delta_u
\* differ
TwoShowsDiffer ==
    /\ IsSome(checked)
    /\ IsSome(Unwrap(checked).previous)
    /\ Unwrap(Unwrap(checked).previous).credential = Unwrap(checked).last.credential
    /\ Unwrap(Unwrap(checked).previous).delta_r # Unwrap(checked).last.delta_r
    /\ Unwrap(Unwrap(checked).previous).delta_u # Unwrap(checked).last.delta_u

\* C25 -- two show outputs of the same Signed credential made with different
\* delta_r and different delta_u have different randomized commitments and
\* different randomized signatures.
C25_ShowsDistinct ==
    TwoShowsDiffer =>
        LET a == Unwrap(Unwrap(checked).previous).presentation
            b == Unwrap(checked).last.presentation
        IN  /\ a.randomized_commitment # b.randomized_commitment
            /\ a.randomized_signature # b.randomized_signature

\* C25 (amended) -- the commitments always differ; the signatures differ
\* whenever the stored signature is not (identity, identity).
C25_ShowsDistinctNonIdentity ==
    TwoShowsDiffer =>
        LET a == Unwrap(Unwrap(checked).previous).presentation
            b == Unwrap(checked).last.presentation
            signature == Unwrap(Unwrap(checked).last.credential.signature)
        IN  /\ a.randomized_commitment # b.randomized_commitment
            /\ signature # [sigma1 |-> 0, sigma2 |-> 0] =>
                   a.randomized_signature # b.randomized_signature

C25_Witness ==
    /\ TwoShowsDiffer
    /\ SignatureEquation(issuer_vk, Unwrap(Unwrap(credential).signature),
                         Unwrap(credential).commitment, protocol.pp)
    /\ Unwrap(Unwrap(credential).signature).sigma1 # 0
    /\ Unwrap(checked).last.delta_u # 0
    /\ Unwrap(checked).last.delta_r = 0
    /\ Unwrap(Unwrap(checked).previous).presentation.randomized_signature
           # Unwrap(checked).last.presentation.randomized_signature
    /\ Unwrap(Unwrap(checked).previous).presentation.randomized_commitment
           # Unwrap(checked).last.presentation.randomized_commitment

\* What C26 says of one obtain_credential step
ObtainStepAsSpecified ==
    ret'.op = "obtain_credential" =>
        LET issuer_id == ret'.args[1]
            key == <<ret'.args[1], ret'.args[2]>>
            attributes == ret'.args[3]
            issuer == GetIssuer(system, issuer_id)
            refused == \/ issuer = None
                       \/ 1 + Len(attributes) # Unwrap(issuer).protocol.pp.n
        IN  IF refused
            THEN /\ ret'.val \in {"Err(Other(Issuer not found))",
                                  "Err(Other(Attribute count mismatch))"}
                 /\ user' = user
            ELSE /\ ret'.val = "Ok"
                 /\ key \in DOMAIN Unwrap(user').credentials
                 /\ Unwrap(user').credentials[key].state = "Signed"
                 /\ IsSome(Unwrap(user').credentials[key].signature)
                 /\ Unwrap(user').credentials[key].messages[1] = Unwrap(user).id
                 /\ \A deltas \in ShowDeltas :
                      LET shown == UserShowCredentials(Unwrap(user'), <<key>>, system, deltas)
                      IN  /\ shown.tag = "Ok"
                          /\ ShowCredentialVerify(Unwrap(shown.val)[1],
                                                  Unwrap(issuer).protocol.pp,
                                                  Unwrap(issuer).vk) = "true"

\* What C26 says of a show_credentials of stored credentials
StoredCredentialsShow ==
    (/\ ret.op = "show_credentials"
     /\ \A i \in 1 .. Len(Unwrap(checked).credential_keys) :
          Unwrap(checked).credential_keys[i] \in DOMAIN Unwrap(user).credentials) =>
        /\ Unwrap(checked).result.tag = "Ok"
        /\ \A i \in 1 .. Len(Unwrap(checked).credential_keys) :
             LET issuer == Unwrap(GetIssuer(system, Unwrap(checked).credential_keys[i][1]))
             IN  ShowCredentialVerify(Unwrap(Unwrap(checked).result.val)[i],
                                      issuer.protocol.pp, issuer.vk) = "true"

\* C26 -- User.obtain_credential returns Err(Other) and leaves
\* user.credentials unchanged when the issuer is not registered or when
\* 1 + |attributes| differs from the issuer's n; otherwise it returns Ok and
\* stores under (issuer_id, credential_id) a Signed credential whose first
\* attribute is user.id and whose show_credentials presentation verifies under
\* that issuer's public parameters and verification key.
C26_ObtainCredential == [][ObtainStepAsSpecified]_vars /\ []StoredCredentialsShow

C26_Witness ==
    /\ ret.op = "show_credentials"
    /\ Unwrap(checked).result.tag = "Ok"
    /\ Len(Unwrap(checked).credential_keys) = 2
    /\ Unwrap(user).credentials[<<0, 0>>].commitment.cm
           # Unwrap(user).credentials[<<1, 0>>].commitment.cm
    /\ Len(Unwrap(user).credentials[<<0, 0>>].messages)
           # Len(Unwrap(user).credentials[<<1, 0>>].messages)

\* The presentation the last verify call was made on
VerifiedPresentation ==
    IF ret.op = "assembled_verify" THEN Unwrap(checked)
    ELSE Unwrap(Unwrap(linked).result.val)

\* C27 -- whenever LinkedCredentialPresentation.verify returns Ok(true),
\* identity_proof.commitments and credential_presentations have the same
\* length and identity_proof.commitments[i] equals
\* credential_presentations[i].randomized_commitment for every i.
C27_ProofTiedToPresentations ==
    (ret.op \in {"linked_verify", "assembled_verify"} /\ ret.val = "Ok(true)") =>
        /\ Len(VerifiedPresentation.identity_proof.commitments)
               = Len(VerifiedPresentation.credential_presentations)
        /\ \A i \in 1 .. Len(VerifiedPresentation.credential_presentations) :
             VerifiedPresentation.identity_proof.commitments[i]
                 = VerifiedPresentation.credential_presentations[i].randomized_commitment

\* C28 -- MimcAbc.issue returns a signature only for a proof whose Schnorr
\* equation holds over the issuer's own bases: a CommitmentProof whose bases
\* field differs from pp.get_g1_bases() is rejected with InvalidProof.
C28_IssueChecksOwnBases ==
    (ret.op = "issue" /\ IsSome(proof)) =>
        /\ issued.tag = "Ok" =>
             VerifySchnorr(GetG1Bases(protocol.pp), Unwrap(proof).commitment.cm,
                           Unwrap(proof).schnorr_commitment, Unwrap(proof).responses,
                           Unwrap(proof).challenge)
        /\ Unwrap(proof).bases # GetG1Bases(protocol.pp) =>
             issued = Err("InvalidProof")

\* C29 -- every signature from SecretKey.sign or Signature.randomize with any
\* (delta_r, delta_u) is bound to one commitment: if verification accepts it
\* for a well-formed commitment A under vk, verification rejects it for every
\* well-formed commitment B with a different value.
C29_SignatureBoundToCommitment ==
    (IsSome(checked) /\ ret.op \in {"vk_verify", "vk_verify_with_pairing_checker"}) =>
        \A i, j \in 1 .. Len(Unwrap(checked).verified) :
            (/\ Unwrap(checked).verified[i].accepted
             /\ Unwrap(checked).verified[j].commitment
                    # Unwrap(checked).verified[i].commitment) =>
                ~Unwrap(checked).verified[j].accepted

\* The values of enum CredentialState
CredentialState == {"Initialized", "Committed", "Signed", "Randomized"}

\* C30 -- after any sequence of new, prove_commitment, add_signature, show and
\* verify calls the state of a credential is Signed exactly when a signature
\* is stored and Committed otherwise; Initialized and Randomized are never
\* reached, Signed never returns to Committed, and commitment, messages and r
\* never change after new.
C30_CredentialStateMachine ==
    [][/\ IsSome(credential') =>
            /\ Unwrap(credential').state \in CredentialState \ {"Initialized", "Randomized"}
            /\ Unwrap(credential').state = "Signed" <=> IsSome(Unwrap(credential').signature)
            /\ Unwrap(credential').state = "Committed" <=> Unwrap(credential').signature = None
       /\ IsSome(credential) =>
            /\ IsSome(credential')
            /\ Unwrap(credential').commitment = Unwrap(credential).commitment
            /\ Unwrap(credential').messages = Unwrap(credential).messages
            /\ Unwrap(credential').r = Unwrap(credential).r
            /\ Unwrap(credential).state = "Signed" => Unwrap(credential').state = "Signed"]_vars

C30_Witness ==
    /\ ret.op = "verify"
    /\ IsSome(credential)
    /\ Unwrap(credential).state = "Signed"
    /\ origin = "forged"
    /\ shows = MaxShows
    /\ issued.tag = "Ok"


====
